---- MODULE Spec2Model ----
(***************************************************************************)
(* A model of the numiproof proof engine: the Goldilocks-shaped field, the *)
(* SHAKE256 helpers and the Fiat-Shamir transcript, the Merkle tree, the   *)
(* radix-2 NTT / LDE, the FRI commit / fold / query helpers, the Fibonacci *)
(* AIR, and Prover::prove_fib / Verifier::verify_fib.                      *)
(*                                                                         *)
(* Scaling.  TLC's integers are 32 bits wide, so the machine word of the   *)
(* code (u64) is modelled as an 8-bit word and the field modulus            *)
(* 2^64 - 2^32 + 1 as 2^8 - 2^4 + 1 = 241, a prime of the same shape whose *)
(* multiplicative group has 2-adicity 4 (instead of 32) and in which 7 is  *)
(* a non-residue as well.  A u64 (and the u32 of FibPublic) is encoded in  *)
(* one byte instead of eight (four).                                       *)
(*                                                                         *)
(* Hashing.  SHAKE256 is modelled as a collision-free function of the      *)
(* absorbed byte string: the digest of a string is that string between the *)
(* two marks HOpen and HClose, which are not bytes.  Byte strings are      *)
(* concatenated as the code concatenates them, so two calls that absorb    *)
(* the same bytes give the same digest and no others do.  The numbers a    *)
(* transcript state squeezes (challenge_bytes, the seeded StdRng) are kept *)
(* in the table xof, filled on first use with any values and read back     *)
(* unchanged afterwards.                                                   *)
(***************************************************************************)
EXTENDS Integers, Sequences, FiniteSets, TLC

\* ------------------------------------------------------------------------
\* Vectors.  A Rust Vec / slice indexed from 0 is a function on 0..n-1.
\* ------------------------------------------------------------------------
VLen(v) == Cardinality(DOMAIN v)

EmptyVec == [i \in {} |-> 0]

\* usize::next_power_of_two
RECURSIVE NextPow2From(_, _)
NextPow2From(p, n) == IF p >= n THEN p ELSE NextPow2From(2 * p, n)

next_power_of_two(n) == NextPow2From(1, n)

\* usize::is_power_of_two
RECURSIVE is_power_of_two(_)
is_power_of_two(n) ==
  IF n <= 0 THEN FALSE
  ELSE IF n = 1 THEN TRUE
  ELSE IF n % 2 = 1 THEN FALSE
  ELSE is_power_of_two(n \div 2)

\* usize::trailing_zeros (of a non-zero value)
RECURSIVE trailing_zeros(_)
trailing_zeros(n) == IF n % 2 = 1 THEN 0 ELSE 1 + trailing_zeros(n \div 2)

\* ------------------------------------------------------------------------
\* numiproof-field
\* ------------------------------------------------------------------------
\* The number of values of a machine word (2^64 in the code).
WORD == 256

\* MODULUS = 2^64 - 2^32 + 1 in the code; 2^8 - 2^4 + 1 here.
MODULUS == 241

\* The generator g of root_of_unity.
GENERATOR == 7

\* The 2-adicity of MODULUS - 1 (32 in the code): root_of_unity(k) is a
\* primitive 2^k-th root only for k up to it.
TWO_ADICITY == 4

reduce_u128(x) == x % MODULUS

Fp_new(x) == reduce_u128(x)

Fp_zero == 0

Fp_one == 1

to_u64(x) == x

\* an addition that forgets the carry out of the word
Fp_add_nocarry(a, b) ==
  LET s == (a + b) % WORD
  IN IF s >= MODULUS THEN (s + WORD - MODULUS) % WORD ELSE s

\* overflowing_add, then one conditional wrapping_sub of MODULUS
Fp_add(a, b) ==
  LET s == (a + b) % WORD
      c == (a + b) >= WORD
  IN IF c \/ s >= MODULUS THEN (s + WORD - MODULUS) % WORD ELSE s

\* a subtraction that forgets the borrow
Fp_sub_noborrow(a, b) == (a - b + WORD) % WORD

\* overflowing_sub, then wrapping_add of MODULUS on borrow
Fp_sub(a, b) ==
  LET d == (a - b + WORD) % WORD
      bw == a < b
  IN IF bw THEN (d + MODULUS) % WORD ELSE d

Fp_mul(a, b) == reduce_u128(a * b)

\* MODULUS - self.0 overflows the word for a word above MODULUS: a debug
\* build panics there
Fp_neg_overflows(a) == a > MODULUS

\* the value a release build returns: MODULUS - self.0 on the machine word
Fp_neg(a) == IF a = 0 THEN a ELSE (MODULUS - a + WORD) % WORD

\* right-to-left square and multiply
RECURSIVE PowLoop(_, _, _)
PowLoop(base, acc, e) ==
  IF e > 0
  THEN PowLoop(Fp_mul(base, base),
               IF e % 2 = 1 THEN Fp_mul(acc, base) ELSE acc,
               e \div 2)
  ELSE acc

Fp_pow(x, e) == PowLoop(x, Fp_one, e)

Fp_inv(x) == Fp_pow(x, MODULUS - 2)

\* the width of u128, the type of the exponent: twice the word (128 bits in
\* the source, 16 at this scale)
U128_BITS == 16

\* `x >> power` on a u128: the release build masks the shift amount to the
\* width of the type; the debug build panics when power >= U128_BITS
\* (root_of_unity_shift_overflows)
U128_shr(x, power) == x \div (2 ^ (power % U128_BITS))

root_of_unity_shift_overflows(power) == power >= U128_BITS

\* the value the release build returns
root_of_unity(power) == Fp_pow(Fp_new(GENERATOR), U128_shr(MODULUS - 1, power))

RECURSIVE BitRevLoop(_, _, _)
BitRevLoop(x, y, bits) ==
  IF bits = 0 THEN y ELSE BitRevLoop(x \div 2, 2 * y + (x % 2), bits - 1)

bit_reverse(x, bits) == BitRevLoop(x, 0, bits)

\* ------------------------------------------------------------------------
\* numiproof-poly
\* ------------------------------------------------------------------------
\* One level of butterflies of fft_in_place: blocks of m, twiddle w_m^j.
Butterflies(a, m, w_m) ==
  [i \in DOMAIN a |->
     LET half == m \div 2
         j == i % half
         k == i - (i % m)
         t == Fp_mul(Fp_pow(w_m, j), a[k + j + half])
         u == a[k + j]
     IN IF i % m < half THEN Fp_add(u, t) ELSE Fp_sub(u, t)]

RECURSIVE FftLevels(_, _, _)
FftLevels(a, m, root) ==
  LET n == VLen(a) IN
  IF m <= n
  THEN FftLevels(Butterflies(a, m, Fp_pow(root, n \div m)), 2 * m, root)
  ELSE a

\* assert!(n.is_power_of_two()), then the bit-reverse permutation (the
\* swaps of i < bit_reverse(i)), then the levels; "panic" where the
\* assertion fails
fft_in_place(a, root) ==
  LET n == VLen(a)
      bits == trailing_zeros(n)
      permuted == [i \in DOMAIN a |-> a[bit_reverse(i, bits)]]
  IN IF ~is_power_of_two(n) THEN "panic"
     ELSE FftLevels(permuted, 2, root)

\* an inverse transform that forgets the scaling by n^{-1}
ifft_in_place_unscaled(a, root) == fft_in_place(a, Fp_inv(root))

\* "panic" where fft_in_place panics
ifft_in_place(a, root) ==
  LET n == VLen(a)
      inv_root == Fp_inv(root)
      t == fft_in_place(a, inv_root)
      inv_n == Fp_inv(Fp_new(n))
  IN IF ~is_power_of_two(n) THEN "panic"
     ELSE [i \in DOMAIN a |-> Fp_mul(t[i], inv_n)]

\* an extension that takes the evaluations for coefficients: no inverse
\* transform on the base domain
lde_of_coeffs(base_evals, blowup_log2) ==
  LET n_base == next_power_of_two(VLen(base_evals))
      ext_size == n_base * (2 ^ blowup_log2)
      a == [i \in 0..(ext_size - 1) |->
              IF i < VLen(base_evals) THEN base_evals[i] ELSE Fp_zero]
  IN fft_in_place(a, root_of_unity(trailing_zeros(ext_size)))

lde_from_evals(base_evals, blowup_log2) ==
  LET count == VLen(base_evals)
      n_base == next_power_of_two(count)
      ext_size == n_base * (2 ^ blowup_log2)
      evals == [i \in 0..(n_base - 1) |->
                  IF count = 0 THEN Fp_zero
                  ELSE IF i < count THEN base_evals[i]
                  ELSE base_evals[count - 1]]
      w_base == root_of_unity(trailing_zeros(n_base))
      coeffs == ifft_in_place(evals, w_base)
      coeffs_ext == [i \in 0..(ext_size - 1) |->
                       IF i < n_base THEN coeffs[i] ELSE Fp_zero]
      w_ext == root_of_unity(trailing_zeros(ext_size))
  IN fft_in_place(coeffs_ext, w_ext)

\* the points 1, w, w^2, ... of the radix-2 domain (x *= w in the loops)
DomainPoints(domain_size) ==
  LET w == root_of_unity(trailing_zeros(domain_size))
  IN [i \in 0..(domain_size - 1) |-> Fp_pow(w, i)]

\* "panic" where assert!(domain_size.is_power_of_two()) fails
vanishing_on_extended(domain_size, base_size) ==
  LET xs == DomainPoints(domain_size)
  IN IF ~is_power_of_two(domain_size) THEN "panic"
     ELSE [i \in DOMAIN xs |-> Fp_sub(Fp_pow(xs[i], base_size), Fp_one)]

\* Horner, highest coefficient first
RECURSIVE Horner(_, _, _, _)
Horner(coeffs, x, i, acc) ==
  IF i < 0 THEN acc
  ELSE Horner(coeffs, x, i - 1, Fp_add(Fp_mul(acc, x), coeffs[i]))

\* "panic" where assert!(domain_size.is_power_of_two()) fails
eval_poly_on_domain(coeffs, domain_size) ==
  LET xs == DomainPoints(domain_size)
  IN IF ~is_power_of_two(domain_size) THEN "panic"
     ELSE [i \in DOMAIN xs |-> Horner(coeffs, xs[i], VLen(coeffs) - 1, Fp_zero)]

\* ------------------------------------------------------------------------
\* numiproof-hash
\* ------------------------------------------------------------------------
\* The two marks that delimit a digest, standing for SHAKE256's 48 output
\* bytes of the string between them; neither is a byte value.
HOpen == -1

HClose == -2

DIGEST_LEN == 48

\* Domain labels, as label.as_bytes()
DOM_ROW == <<114, 111, 119>>

DOM_MERKLE_NODE == <<109, 101, 114, 107, 108, 101, 46, 110, 111, 100, 101>>

DOM_FRI_LEAF == <<102, 114, 105, 46, 108, 101, 97, 102>>

DOM_PROOF_DIGEST == <<112, 114, 111, 111, 102, 46, 100, 105, 103, 101, 115, 116>>

DOM_ACCUMULATOR == <<97, 99, 99, 117, 109, 117, 108, 97, 116, 111, 114>>

\* hasher.update(data); squeeze 48 bytes
shake256_384(data) == <<HOpen>> \o data \o <<HClose>>

\* update(label); update([0]); update(a); update([1]); update(b)
\* a node hash that leaves its right input out
h2_left(label, a, b) == shake256_384(label \o <<0>> \o a)

h2(label, a, b) == shake256_384(label \o <<0>> \o a \o <<1>> \o b)

\* update(label); for (i, p): update([i as u8]); update(p)
\* the bytes the loop absorbs for the parts of index lo .. hi - 1, in order
\* (computed by halves: the same bytes, with an evaluation log2(hi - lo) deep)
RECURSIVE HManyFrames(_, _, _)
HManyFrames(parts, lo, hi) ==
  IF hi <= lo THEN <<>>
  ELSE IF hi = lo + 1 THEN <<lo % WORD>> \o parts[lo + 1]
  ELSE HManyFrames(parts, lo, (lo + hi) \div 2)
         \o HManyFrames(parts, (lo + hi) \div 2, hi)

HManyAbsorb(buf, parts, i) == buf \o HManyFrames(parts, i, Len(parts))

h_many(label, parts) == shake256_384(HManyAbsorb(label, parts, 0))

\* Transcript::new
Transcript_new(domain) == domain

\* Transcript::absorb: state = shake256_384(state || 0xFF || label || 0 || data)
absorb(state, label, data) ==
  shake256_384(state \o <<255>> \o label \o <<0>> \o data)

\* What SHAKE256 squeezes from a transcript state, read from a table x of the
\* squeezed values: chal is u64::from_le_bytes(challenge_bytes(8)), draws the
\* outputs of the StdRng seeded with challenge_bytes(32).
challenge_u64(x, state) == x[state].chal

\* Transcript::rng: a generator at the start of its stream; every call
\* re-seeds from the same state.
rng(x, state) == x[state].draws

\* RngCore::next_u64, the k-th call (k from 0) on a generator g
next_u64(g, k) == g[k + 1]

\* u64::to_le_bytes and from_le_bytes, on the one-byte word
to_le_bytes(v) == <<v % WORD>>

from_le_bytes(b) == b[1]

\* the number of bytes of a u64 (8 in the code) and of a u32 (4 in the code)
U64_BYTES == 1

U32_BYTES == 1

\* ------------------------------------------------------------------------
\* Option<T>
\* ------------------------------------------------------------------------
Some(v) == [some |-> TRUE, val |-> v]

None == [some |-> FALSE, val |-> <<>>]

\* ------------------------------------------------------------------------
\* numiproof-merkle
\* ------------------------------------------------------------------------
\* for i in (1..n).rev(): nodes[i] = h2(node label, nodes[2i], nodes[2i+1])
RECURSIVE MerkleInternal(_, _)
MerkleInternal(nodes, i) ==
  IF i < 1 THEN nodes
  ELSE MerkleInternal(
         [nodes EXCEPT ![i] = h2(DOM_MERKLE_NODE, nodes[2 * i], nodes[2 * i + 1])],
         i - 1)

\* every leaf-filling task writing through one shared cursor
MerkleLeafSlot_shared(n, i) == n

\* the slot the leaf-filling task of index i writes, and its value
MerkleLeafSlot(n, i) == n + i

\* padding by the first leaf
MerkleLeafValue_first(leaves, i) ==
  IF i < VLen(leaves) THEN leaves[i] ELSE leaves[0]

MerkleLeafValue(leaves, i) ==
  IF i < VLen(leaves) THEN leaves[i] ELSE leaves[VLen(leaves) - 1]

\* MerkleTree::build: the node array, root at 1, leaves at n..2n-1
MerkleTree_build(leaves) ==
  LET n == next_power_of_two(VLen(leaves))
      zero == [i \in 1..DIGEST_LEN |-> 0]
      filled == [s \in 0..(2 * n - 1) |->
                   IF s >= n THEN MerkleLeafValue(leaves, s - n) ELSE zero]
  IN MerkleInternal(filled, n - 1)

MerkleTree_root(mt) == mt[1]

RECURSIVE MerkleOpenLoop(_, _, _)
MerkleOpenLoop(mt, idx, path) ==
  IF idx > 1
  THEN MerkleOpenLoop(mt, idx \div 2,
                      Append(path, mt[IF idx % 2 = 0 THEN idx + 1 ELSE idx - 1]))
  ELSE path

\* an opening that gives the nodes on the way up, not their siblings
MerkleTree_open_self(mt, idx) ==
  [l \in 1..trailing_zeros(VLen(mt) \div 2) |-> mt[(idx + VLen(mt) \div 2) \div (2 ^ (l - 1))]]

\* MerkleTree::open: the siblings, bottom to top
MerkleTree_open(mt, idx) == MerkleOpenLoop(mt, idx + VLen(mt) \div 2, <<>>)

RECURSIVE MerkleVerifyLoop(_, _, _, _)
MerkleVerifyLoop(h, idx, path, i) ==
  IF i > Len(path) THEN h
  ELSE MerkleVerifyLoop(
         IF idx % 2 = 0 THEN h2(DOM_MERKLE_NODE, h, path[i])
                        ELSE h2(DOM_MERKLE_NODE, path[i], h),
         idx \div 2, path, i + 1)

\* a verification that takes any leaf for the one committed to
MerkleTree_verify_any(root, idx, leaf, path) == Len(path) >= 0

\* MerkleTree::verify
MerkleTree_verify(root, idx, leaf, path) ==
  MerkleVerifyLoop(leaf, idx, path, 1) = root

\* ------------------------------------------------------------------------
\* numiproof-fri
\* ------------------------------------------------------------------------
\* the leaf of an oracle value
FriLeaf(v) == shake256_384(h_many(DOM_FRI_LEAF, <<to_le_bytes(to_u64(v))>>))

\* FriProver::commit: (FriCommitment, MerkleTree)
FriProver_commit(values) ==
  LET leaves == [i \in DOMAIN values |-> FriLeaf(values[i])]
      mt == MerkleTree_build(leaves)
  IN [commitment |-> [oracle |-> [root |-> MerkleTree_root(mt), len |-> VLen(values)]],
      mt |-> mt]

\* FriProver::commit_round: (FriRoundCommitment, MerkleTree)
FriProver_commit_round(values) ==
  LET c == FriProver_commit(values)
  IN [commitment |-> [root |-> c.commitment.oracle.root, len |-> c.commitment.oracle.len],
      mt |-> c.mt]

\* FriProver::open
FriProver_open(mt, idx, value) ==
  [idx |-> idx, value |-> value, path |-> MerkleTree_open(mt, idx)]

\* lo_idx ^ half: the bitwise exclusive or
RECURSIVE XorHalf(_, _)
XorHalf(lo_idx, half) ==
  IF lo_idx = 0 THEN half
  ELSE IF half = 0 THEN lo_idx
  ELSE ((lo_idx + half) % 2) + 2 * XorHalf(lo_idx \div 2, half \div 2)

\* FriProver::open_pair; "panic" where pos % len divides by zero or
\* values[hi_idx] is out of bounds
FriProver_open_pair(values, mt, pos) ==
  LET len == VLen(values)
      half == len \div 2
      lo_idx == pos % len
      hi_idx == XorHalf(lo_idx, half)
  IN IF len = 0 THEN "panic"
     ELSE IF hi_idx >= len THEN "panic"
     ELSE [pos |-> lo_idx,
           lo |-> FriProver_open(mt, lo_idx, values[lo_idx]),
           hi |-> FriProver_open(mt, hi_idx, values[hi_idx])]

\* FriProver::fold_values; "panic" where assert!(len % 2 == 0) fails
FriProver_fold_values(alpha, values) ==
  LET half == VLen(values) \div 2
  IN IF VLen(values) % 2 # 0 THEN "panic"
     ELSE [i \in 0..(half - 1) |->
             Fp_add(values[i], Fp_mul(alpha, values[i + half]))]

\* FriVerifier::verify_opening
FriVerifier_verify_opening(commitment, proof) ==
  IF proof.idx >= commitment.oracle.len THEN FALSE
  ELSE MerkleTree_verify(commitment.oracle.root, proof.idx,
                         FriLeaf(proof.value), proof.path)

\* FriVerifier::verify_pair
FriVerifier_verify_pair(root, len, pair) ==
  IF pair.lo.idx >= len \/ pair.hi.idx >= len THEN FALSE
  ELSE /\ MerkleTree_verify(root, pair.lo.idx, FriLeaf(pair.lo.value), pair.lo.path)
       /\ MerkleTree_verify(root, pair.hi.idx, FriLeaf(pair.hi.value), pair.hi.path)

\* FriVerifier::verify_folding_chain; next_pair is an Option
FriVerifier_verify_folding_chain(alpha, pair, next_pair) ==
  LET expected_folded == Fp_add(pair.lo.value, Fp_mul(alpha, pair.hi.value))
      next == next_pair.val
      folded_idx == pair.pos \div 2
  IN IF next_pair.some
     THEN IF next.lo.idx # folded_idx /\ next.hi.idx # folded_idx
          THEN FALSE
          ELSE next.lo.value = expected_folded \/ next.hi.value = expected_folded
     ELSE TRUE

\* ------------------------------------------------------------------------
\* numiproof-air: the Fibonacci AIR
\* ------------------------------------------------------------------------
FibonacciAir_new(a0, a1, steps) ==
  [a0 |-> Fp_new(a0), a1 |-> Fp_new(a1), steps |-> steps]

\* "fibonacci_v1"
FibonacciAir_id == <<102, 105, 98, 111, 110, 97, 99, 99, 105, 95, 118, 49>>

RECURSIVE ExpectedFirstLoop(_, _, _)
ExpectedFirstLoop(x, y, steps) ==
  IF steps = 0 THEN x ELSE ExpectedFirstLoop(y, Fp_add(x, y), steps - 1)

expected_first(a0, a1, steps) == ExpectedFirstLoop(a0, a1, steps)

trace_len(air) == air.steps + 1

n_cols(air) == 2

\* steps as u32 (the u32 is one byte here, like the u64)
public_input(air) ==
  [steps |-> air.steps % WORD,
   a0 |-> to_u64(air.a0),
   a1 |-> to_u64(air.a1),
   expected_first |-> to_u64(expected_first(air.a0, air.a1, air.steps))]

RECURSIVE TraceLoop(_, _, _, _)
TraceLoop(c0, c1, i, n) ==
  IF i >= n - 1 THEN [c \in 0..1 |-> IF c = 0 THEN c0 ELSE c1]
  ELSE TraceLoop([c0 EXCEPT ![i + 1] = c1[i]],
                 [c1 EXCEPT ![i + 1] = Fp_add(c0[i], c1[i])],
                 i + 1, n)

\* column-major: gen_trace(air)[c][i]
gen_trace(air) ==
  LET n == trace_len(air)
  IN TraceLoop([i \in 0..(n - 1) |-> IF i = 0 THEN air.a0 ELSE Fp_zero],
               [i \in 0..(n - 1) |-> IF i = 0 THEN air.a1 ELSE Fp_zero],
               0, n)

\* a check that forgets the second transition constraint
check_row_first_column(i, row, next, pub_inp) ==
  IF i = 0 /\ (to_u64(row[0]) # pub_inp.a0 \/ to_u64(row[1]) # pub_inp.a1)
  THEN "false"
  ELSE IF next.some
  THEN IF next.val[0] # row[1] THEN "false" ELSE "true"
  ELSE IF to_u64(row[0]) # pub_inp.expected_first THEN "false" ELSE "true"

\* check_row: "true" or "false", or "panic" where the code indexes row or
\* nxt beyond its length.  next is an Option.
check_row(i, row, next, pub_inp) ==
  LET nxt == next.val
      first ==
        IF i # 0 THEN "ok"
        ELSE IF VLen(row) < 1 THEN "panic"
        ELSE IF to_u64(row[0]) # pub_inp.a0 THEN "false"
        ELSE IF VLen(row) < 2 THEN "panic"
        ELSE IF to_u64(row[1]) # pub_inp.a1 THEN "false"
        ELSE "ok"
      rest ==
        IF next.some
        THEN IF VLen(nxt) < 1 \/ VLen(row) < 2 THEN "panic"
             ELSE IF nxt[0] # row[1] THEN "false"
             ELSE IF VLen(nxt) < 2 THEN "panic"
             ELSE IF nxt[1] # Fp_add(row[0], row[1]) THEN "false"
             ELSE "true"
        ELSE IF VLen(row) < 1 THEN "panic"
             ELSE IF to_u64(row[0]) # pub_inp.expected_first THEN "false"
             ELSE "true"
  IN IF first # "ok" THEN first ELSE rest

\* eval_constraints on a row (and a next row) of n_cols entries; the row
\* index is not used
eval_constraints(i, row, next, pub_inp) ==
  IF next.some
  THEN LET nxt == next.val
           c0 == Fp_sub(nxt[0], row[1])
           c1 == Fp_sub(nxt[1], Fp_add(row[0], row[1]))
       IN [c \in 0..1 |-> IF c = 0 THEN c0 ELSE c1]
  ELSE LET c_end == Fp_sub(row[0], Fp_new(pub_inp.expected_first))
       IN [c \in 0..1 |-> IF c = 0 THEN c_end ELSE Fp_zero]

RECURSIVE RowBytesLoop(_, _, _)
RowBytesLoop(row, i, v) ==
  IF i >= VLen(row) THEN v
  ELSE RowBytesLoop(row, i + 1, v \o to_le_bytes(to_u64(row[i])))

row_to_bytes(row) == RowBytesLoop(row, 0, <<>>)

\* ------------------------------------------------------------------------
\* numiproof-proof
\* ------------------------------------------------------------------------
\* bincode::serialize(&FibPublic): the fields in order, fixed width,
\* little-endian
bincode_serialize(pub_inp) ==
  to_le_bytes(pub_inp.steps) \o to_le_bytes(pub_inp.a0)
    \o to_le_bytes(pub_inp.a1) \o to_le_bytes(pub_inp.expected_first)

\* bincode::deserialize::<FibPublic>: Err (None) on too few bytes
bincode_deserialize(bytes) ==
  IF Len(bytes) < U32_BYTES + 3 * U64_BYTES THEN None
  ELSE Some([steps |-> bytes[1], a0 |-> bytes[2], a1 |-> bytes[3],
             expected_first |-> bytes[4]])

\* accumulate; prev is an Option
accumulate(prev, cur) ==
  IF prev.some THEN h_many(DOM_ACCUMULATOR, <<prev.val, cur>>)
  ELSE h_many(DOM_ACCUMULATOR, <<cur>>)

\* bytes_to_fps: None unless the length is a multiple of a word
bytes_to_fps(b) ==
  IF Len(b) % U64_BYTES # 0 THEN None
  ELSE Some([i \in 0..((Len(b) \div U64_BYTES) - 1) |->
               Fp_new(from_le_bytes(SubSeq(b, i * U64_BYTES + 1, (i + 1) * U64_BYTES)))])

\* "numiproof.fs"
FS_DOMAIN == <<110, 117, 109, 105, 112, 114, 111, 111, 102, 46, 102, 115>>

\* "air_id", "pub_input", "root"
LABEL_AIR_ID == <<97, 105, 114, 95, 105, 100>>

LABEL_PUB_INPUT == <<112, 117, 98, 95, 105, 110, 112, 117, 116>>

LABEL_ROOT == <<114, 111, 111, 116>>

\* The transcript after the three absorptions both sides make.
FsTranscript(air_id, pub_input_enc, root) ==
  absorb(absorb(absorb(Transcript_new(FS_DOMAIN), LABEL_AIR_ID, air_id),
                LABEL_PUB_INPUT, pub_input_enc),
         LABEL_ROOT, root)

\* h_many(DOM_ROW, [bytes]) hashed once more
RowLeaf(bytes) == shake256_384(h_many(DOM_ROW, <<bytes>>))

\* a digest that leaves the public input out
ProofDigest_no_pub(root, pub_input_enc, queries) ==
  h_many(DOM_PROOF_DIGEST, <<root, to_le_bytes(queries)>>)

ProofDigest(root, pub_input_enc, queries) ==
  h_many(DOM_PROOF_DIGEST, <<root, pub_input_enc, to_le_bytes(queries)>>)

\* The folding loop of prove_fib: each round draws alpha from the (unchanged)
\* transcript, folds, commits; round_mts keeps (folded, tree).
RECURSIVE FoldRounds(_, _, _, _, _)
FoldRounds(x, tr, current_values, rounds_left, round_mts) ==
  IF rounds_left = 0 THEN round_mts
  ELSE LET alpha == Fp_new(challenge_u64(x, tr))
           folded == FriProver_fold_values(alpha, current_values)
           c == FriProver_commit_round(folded)
       IN FoldRounds(x, tr, folded, rounds_left - 1,
                     Append(round_mts, [values |-> folded, rc |-> c.commitment, mt |-> c.mt]))

\* Prover::prove_fib, with what it computes on the way: the rows and their
\* tree, the composition oracle and the folded oracles.
ProverRun(cfg, air, x) ==
  LET pub_inp == public_input(air)
      pub_inp_enc == bincode_serialize(pub_inp)
      cols == gen_trace(air)
      n == trace_len(air)
      rows == [i \in 0..(n - 1) |->
                 row_to_bytes([c \in 0..1 |-> cols[c][i]])]
      leaves == [i \in 0..(n - 1) |-> RowLeaf(rows[i])]
      mt == MerkleTree_build(leaves)
      root == MerkleTree_root(mt)
      tr == FsTranscript(FibonacciAir_id, pub_inp_enc, root)
      blowup_log2 == cfg.blowup_log2
      base_pow2 == next_power_of_two(n)
      ext_size == base_pow2 * (2 ^ blowup_log2)
      rng_mask == rng(x, tr)
      r0 == Fp_new(next_u64(rng_mask, 0))
      r1 == Fp_new(next_u64(rng_mask, 1))
      r_eval == eval_poly_on_domain([i \in 0..1 |-> IF i = 0 THEN r0 ELSE r1], ext_size)
      z_base == vanishing_on_extended(ext_size, base_pow2)
      mask_evals == [i \in 0..(ext_size - 1) |-> Fp_mul(r_eval[i], z_base[i])]
      col0_ext == lde_from_evals(cols[0], blowup_log2)
      col1_ext == lde_from_evals(cols[1], blowup_log2)
      gamma0 == Fp_new(challenge_u64(x, tr))
      gamma1 == Fp_new(challenge_u64(x, tr))
      fri_values == [i \in 0..(ext_size - 1) |->
                       Fp_add(Fp_add(Fp_mul(gamma0, col0_ext[i]),
                                     Fp_mul(gamma1, col1_ext[i])),
                              mask_evals[i])]
      fc == FriProver_commit(fri_values)
      round_mts == FoldRounds(x, tr, fri_values, cfg.num_rounds, <<>>)
      query_rng == rng(x, tr)
      idx_of(k) == next_u64(query_rng, k) % n
      opening(k) ==
        LET idx == idx_of(k)
        IN [idx |-> idx,
            row |-> rows[idx],
            next_row |-> IF idx + 1 < n THEN Some(rows[idx + 1]) ELSE None,
            path_row |-> MerkleTree_open(mt, idx),
            path_next |-> IF idx + 1 < n THEN Some(MerkleTree_open(mt, idx + 1)) ELSE None]
      ext_idx_of(k) == idx_of(k) * (2 ^ blowup_log2)
      fri_query(k) ==
        [oracle_proof |-> FriProver_open(fc.mt, ext_idx_of(k), fri_values[ext_idx_of(k)])]
      round_query(k) ==
        [rounds |-> [j \in 1..Len(round_mts) |->
                       [pair |-> FriProver_open_pair(round_mts[j].values, round_mts[j].mt,
                                                     ext_idx_of(k) % VLen(round_mts[j].values))]]]
  IN [proof |->
        [version |-> 1,
         air_id |-> FibonacciAir_id,
         pub_input_enc |-> pub_inp_enc,
         merkle_root |-> root,
         n_rows |-> n,
         n_cols |-> n_cols(air),
         queries |-> cfg.queries,
         openings |-> [k \in 1..cfg.queries |-> opening(k - 1)],
         fri_commitment |-> Some(fc.commitment),
         fri_queries |-> Some([k \in 1..cfg.queries |-> fri_query(k - 1)]),
         fri_rounds |-> Some([rounds |-> [j \in 1..Len(round_mts) |-> round_mts[j].rc]]),
         fri_round_queries |-> Some([k \in 1..cfg.queries |-> round_query(k - 1)]),
         proof_digest |-> ProofDigest(root, pub_inp_enc, cfg.queries)],
      fri_values |-> fri_values,
      round_values |-> [j \in 1..Len(round_mts) |-> round_mts[j].values]]

prove_fib(cfg, air, x) == ProverRun(cfg, air, x).proof

\* a next row taken on trust
VerifyNextPath_trusting(root, j, nleaf, path) == Len(path) >= 0

\* verify_fib: the next row's leaf is in the tree at index j = idx + 1
VerifyNextPath(root, j, nleaf, path) == MerkleTree_verify(root, j, nleaf, path)

\* verify_fib, one query: the index and the row openings.  "ok" when the
\* code goes on, "false" where it returns false, "panic" where it aborts.
VerifyRow(proof, pub_inp, g, k) ==
  IF proof.n_rows = 0 THEN "panic"
  ELSE IF k >= Len(proof.openings) THEN "panic"
  ELSE
    LET expected_idx == next_u64(g, k) % proof.n_rows
        o == proof.openings[k + 1]
        leaf == RowLeaf(o.row)
        row == bytes_to_fps(o.row)
        nleaf == RowLeaf(o.next_row.val)
        nrow == bytes_to_fps(o.next_row.val)
        checked == check_row(o.idx, row.val, IF o.next_row.some THEN nrow ELSE None, pub_inp)
    IN IF o.idx # expected_idx THEN "false"
       ELSE IF ~MerkleTree_verify(proof.merkle_root, o.idx, leaf, o.path_row) THEN "false"
       ELSE IF ~row.some THEN "false"
       ELSE IF o.next_row.some # o.path_next.some THEN "false"
       ELSE IF o.next_row.some
               /\ ~VerifyNextPath(proof.merkle_root, o.idx + 1, nleaf, o.path_next.val)
            THEN "false"
       ELSE IF o.next_row.some /\ ~nrow.some THEN "false"
       ELSE IF checked = "true" THEN "ok" ELSE checked

\* verify_fib, one query: the opening of the committed oracle
VerifyOracle(proof, g, k) ==
  IF ~(proof.fri_commitment.some /\ proof.fri_queries.some) THEN "ok"
  ELSE IF k >= Len(proof.fri_queries.val) THEN "panic"
  ELSE
    LET commit == proof.fri_commitment.val
        q == proof.fri_queries.val[k + 1]
        expected_idx == next_u64(g, k) % proof.n_rows
        base_pow2 == next_power_of_two(proof.n_rows)
        ratio == commit.oracle.len \div base_pow2
        blowup_log2 == trailing_zeros(ratio)
        ext_idx == expected_idx * (2 ^ blowup_log2)
    IN IF commit.oracle.len % base_pow2 # 0 THEN "false"
       ELSE IF ~is_power_of_two(ratio) THEN "false"
       ELSE IF q.oracle_proof.idx # ext_idx THEN "false"
       ELSE IF ~FriVerifier_verify_opening(commit, q.oracle_proof) THEN "false"
       ELSE "ok"

\* verify_fib, one query: rounds r_i, r_i + 1, ... of the folding loop
RECURSIVE VerifyRoundLoop(_, _, _, _, _)
VerifyRoundLoop(x, tr, rounds, rqk, r_i) ==
  LET num_rounds == Len(rounds)
      alpha == Fp_new(challenge_u64(x, tr))
      r == rounds[r_i + 1]
      q == rqk[r_i + 1]
      next_pair == IF r_i + 1 < num_rounds THEN Some(rqk[r_i + 2].pair) ELSE None
  IN IF r_i >= num_rounds THEN "ok"
     ELSE IF ~FriVerifier_verify_pair(r.root, r.len, q.pair) THEN "false"
     ELSE IF ~FriVerifier_verify_folding_chain(alpha, q.pair, next_pair) THEN "false"
     ELSE VerifyRoundLoop(x, tr, rounds, rqk, r_i + 1)

\* verify_fib, one query: the folding rounds
VerifyRounds(proof, x, tr, k) ==
  IF ~(proof.fri_rounds.some /\ proof.fri_round_queries.some) THEN "ok"
  ELSE
    LET rounds == proof.fri_rounds.val.rounds
        rq == proof.fri_round_queries.val
        num_rounds == Len(rounds)
        looped == VerifyRoundLoop(x, tr, rounds, rq[k + 1].rounds, 0)
    IN IF k >= Len(rq) THEN "panic"
       ELSE IF Len(rq[k + 1].rounds) # num_rounds THEN "false"
       ELSE IF looped # "ok" THEN looped
       ELSE IF num_rounds > 1 /\ rounds[num_rounds].len >= rounds[1].len THEN "false"
       ELSE "ok"

\* verify_fib, the loop over the queries from k on, then the digest check
RECURSIVE VerifyLoop(_, _, _, _, _)
VerifyLoop(proof, pub_inp, x, tr, k) ==
  LET g == rng(x, tr)
      a == VerifyRow(proof, pub_inp, g, k)
      b == VerifyOracle(proof, g, k)
      c == VerifyRounds(proof, x, tr, k)
  IN IF k >= proof.queries
     THEN IF proof.proof_digest
               = ProofDigest(proof.merkle_root, proof.pub_input_enc, proof.queries)
          THEN "true" ELSE "false"
     ELSE IF a # "ok" THEN a
     ELSE IF b # "ok" THEN b
     ELSE IF c # "ok" THEN c
     ELSE VerifyLoop(proof, pub_inp, x, tr, k + 1)

\* Verifier::verify_fib: "true" / "false" as returned, "panic" on an abort
verify_fib(proof, x) ==
  LET pub_inp == bincode_deserialize(proof.pub_input_enc)
      tr == FsTranscript(proof.air_id, proof.pub_input_enc, proof.merkle_root)
  IN IF proof.version # 1 THEN "false"
     ELSE IF proof.air_id # FibonacciAir_id THEN "false"
     ELSE IF ~pub_inp.some THEN "false"
     ELSE VerifyLoop(proof, pub_inp.val, x, tr, 0)

\* ------------------------------------------------------------------------
\* Bounds of the model
\* ------------------------------------------------------------------------
\* steps of the AIR: 0..MaxSteps
MaxSteps == 2

\* blowup_log2 of the FriConfig: 0..MaxBlowup
MaxBlowup == 1

\* num_rounds of the FriConfig: 1..MaxRounds
MaxRounds == 2

\* queries of the FriConfig and of a proof: 0..MaxQueries
MaxQueries == 2

\* the u64 a transcript state squeezes as its challenge: 1..MaxChal
MaxChal == 2

\* the u64 outputs of the seeded generator: 0..MaxDraw
MaxDraw == 2

\* the bits of a byte or digest a tampering flips: 0..MaxBit
MaxBit == 0

\* (a0, a1) as given to FibonacciAir::new; 242 is not canonical
AirInputs == {<<1, 1>>, <<242, 3>>}

\* the generator outputs a run reads: two for the mask, one per query
NumDraws == IF MaxQueries > 2 THEN MaxQueries ELSE 2

\* what one transcript state may squeeze
Squeezes == [chal : 1..MaxChal, draws : [1..NumDraws -> 0..MaxDraw]]

\* ------------------------------------------------------------------------
\* State
\* ------------------------------------------------------------------------
VARIABLES
  air,      \* the FibonacciAir given to the prover
  cfg,      \* the prover's FriConfig
  xof,      \* transcript state -> what it squeezes, for the states squeezed so far
  phase,    \* "init", "proved", "verified"
  proof,    \* the ProofV1 in flight: as proved, then as tampered with
  rvals,    \* the folded oracles the prover computed (round_mts values)
  content,  \* the change made to the proof's content, if any
  shape,    \* the change made to the proof's shape, if any
  result,   \* what verify_fib did: "true", "false", "panic"; "none" before
  p_values, \* FriProver::commit run by worker tasks: the values committed to
  p_pc,     \* where that run is: "idle", "hash", "fill", "reduce", "done"
  p_leaves, \* the collected leaf hashes, <<>> where not yet written
  p_hashed, \* the leaf-hashing tasks that have run
  p_nodes,  \* the node array of MerkleTree::build
  p_filled, \* the leaf-filling tasks that have run
  p_i,      \* the index of the internal-node loop
  p_out     \* the FriCommitment returned

mvars == <<air, cfg, xof, phase, proof, rvals, content, shape, result>>

pvars == <<p_values, p_pc, p_leaves, p_hashed, p_nodes, p_filled, p_i, p_out>>

\* Transcripts under test: two Transcript values of one domain
VARIABLES
  t_state,  \* Transcript.state of each
  t_hist,   \* the (label, data) pairs each has absorbed, in order
  t_read,   \* the last read of each: after how many absorbs, how many bytes, the bytes
  t_xof     \* state -> the bytes SHAKE256 squeezes from it, for the states read so far

tvars == <<t_state, t_hist, t_read, t_xof>>

\* A Merkle tree under test, and one opening presented to MerkleTree::verify
VARIABLES
  k_leaves, \* the leaves given to MerkleTree::build
  k_tree,   \* the tree built
  k_pc,     \* "built", "opened", "verified"
  k_idx,    \* the index presented
  k_leaf,   \* the leaf presented
  k_path,   \* the path presented
  k_change, \* what was changed in the opening: "none", "leaf", "path", "idx", "level"
  k_ok      \* what MerkleTree::verify returned

kvars == <<k_leaves, k_tree, k_pc, k_idx, k_leaf, k_path, k_change, k_ok>>

\* A FRI oracle under test: committed, one pair opened and verified, folded
VARIABLES
  f_values, \* the oracle V0
  f_alpha,  \* the folding challenge
  f_pc,     \* "start", "committed", "opened", "verified", "folded"
  f_commit, \* what FriProver::commit returned: commitment and tree
  f_pair,   \* the PairOpening of FriProver::open_pair
  f_ok,     \* what FriVerifier::verify_pair returned
  f_folded  \* what FriProver::fold_values returned

fvars == <<f_values, f_alpha, f_pc, f_commit, f_pair, f_ok, f_folded>>

\* A call of h_many
VARIABLES
  h_label,  \* the label
  h_parts,  \* the parts
  h_pc,     \* "call", "returned"
  h_out     \* the digest returned, as an Option: None for a call that fails

hvars == <<h_label, h_parts, h_pc, h_out>>

\* Field arithmetic on two machine words
VARIABLES
  x_a,      \* the first word
  x_b,      \* the second word
  x_pc,     \* "in", "done", "panicked"
  x_op,     \* the operation applied: "add", "sub", "neg", "mul", "inv", "new"
  x_out     \* its result r, and the result back of undoing it

xvars == <<x_a, x_b, x_pc, x_op, x_out>>

\* A transform of one vector and its inverse
VARIABLES
  n_a,      \* the vector
  n_pc,     \* "in", "fft", "ifft"
  n_fft,    \* the vector after fft_in_place
  n_back    \* that vector after ifft_in_place

nvars == <<n_a, n_pc, n_fft, n_back>>

\* A call of lde_from_evals
VARIABLES
  d_base,    \* the base evaluations
  d_r,       \* blowup_log2
  d_pc,      \* "call", "returned", "panicked"
  d_out     \* the extended evaluations returned

dvars == <<d_base, d_r, d_pc, d_out>>

\* A row checked against the Fibonacci constraints
VARIABLES
  c_i,       \* the row index
  c_row,     \* the row
  c_next,    \* the next row, as an Option
  c_pub,     \* the public input
  c_pc,      \* "call", "returned"
  c_ok,      \* what check_row returned
  c_evals   \* what eval_constraints returned

cvars == <<c_i, c_row, c_next, c_pub, c_pc, c_ok, c_evals>>

\* Two part lists hashed under one label
VARIABLES
  g_a,       \* the first list of parts
  g_b,       \* the second list of parts
  g_pc,      \* "call", "hashed", "accumulated"
  g_ha,      \* the digest of the first
  g_hb      \* the digest of the second

gvars == <<g_a, g_b, g_pc, g_ha, g_hb>>

\* Two executions of prove_fib on one input, each step by step
VARIABLES
  e_air,     \* the FibonacciAir both executions are given
  e_cfg,     \* the FriConfig of both provers
  e_xof,     \* transcript state -> what it squeezes, for the states squeezed so far
  e_pc,      \* where each execution is: "rows", "mask", "compose", "fold", "query", "done"
  e_loc,     \* the local variables of each execution
  e_ret      \* the ProofV1 each execution returned, <<>> before

evars == <<e_air, e_cfg, e_xof, e_pc, e_loc, e_ret>>

\* the variables of the functions under test
lvars == <<tvars, kvars, fvars, hvars, xvars, nvars, dvars, cvars, gvars, evars>>

vars == <<mvars, pvars, lvars>>

NoRead == [at |-> -1, n |-> 0, bytes |-> <<>>]

\* no transcript is under test
TrIdle ==
  /\ t_state = <<>>
  /\ t_hist = <<>>
  /\ t_read = <<>>
  /\ t_xof = <<>>

\* no tree is under test
MerkleIdle ==
  /\ k_leaves = EmptyVec
  /\ k_tree = EmptyVec
  /\ k_pc = "idle"
  /\ k_idx = 0
  /\ k_leaf = <<>>
  /\ k_path = <<>>
  /\ k_change = "none"
  /\ k_ok = FALSE

\* no oracle is under test
FriIdle ==
  /\ f_values = EmptyVec
  /\ f_alpha = 0
  /\ f_pc = "idle"
  /\ f_commit = <<>>
  /\ f_pair = <<>>
  /\ f_ok = FALSE
  /\ f_folded = EmptyVec

\* no call of h_many
HashIdle ==
  /\ h_label = <<>>
  /\ h_parts = <<>>
  /\ h_pc = "idle"
  /\ h_out = <<>>

\* no field operation is under test
FieldIdle ==
  /\ x_a = 0
  /\ x_b = 0
  /\ x_pc = "idle"
  /\ x_op = "none"
  /\ x_out = <<>>

\* no transform is under test
NttIdle ==
  /\ n_a = EmptyVec
  /\ n_pc = "idle"
  /\ n_fft = EmptyVec
  /\ n_back = EmptyVec

\* no low-degree extension is under test
LdeIdle ==
  /\ d_base = EmptyVec
  /\ d_r = 0
  /\ d_pc = "idle"
  /\ d_out = EmptyVec

\* no row is under test
AirIdle ==
  /\ c_i = 0
  /\ c_row = <<>>
  /\ c_next = <<>>
  /\ c_pub = <<>>
  /\ c_pc = "idle"
  /\ c_ok = FALSE
  /\ c_evals = <<>>

\* no part lists are under test
FrameIdle ==
  /\ g_a = <<>>
  /\ g_b = <<>>
  /\ g_pc = "idle"
  /\ g_ha = <<>>
  /\ g_hb = <<>>

\* no execution of prove_fib is being stepped
ExecIdle ==
  /\ e_air = FibonacciAir_new(1, 1, 0)
  /\ e_cfg = [blowup_log2 |-> 1, num_rounds |-> 1, queries |-> 0]
  /\ e_xof = [s \in {} |-> 0]
  /\ e_pc = <<>>
  /\ e_loc = <<>>
  /\ e_ret = <<>>

LabIdle ==
  /\ TrIdle
  /\ MerkleIdle
  /\ FriIdle
  /\ HashIdle
  /\ FieldIdle
  /\ NttIdle
  /\ LdeIdle
  /\ AirIdle
  /\ FrameIdle
  /\ ExecIdle

\* no commitment is being computed by worker tasks
ParIdle ==
  /\ p_values = EmptyVec
  /\ p_pc = "idle"
  /\ p_leaves = EmptyVec
  /\ p_hashed = {}
  /\ p_nodes = EmptyVec
  /\ p_filled = {}
  /\ p_i = 0
  /\ p_out = <<>>

NoChange == [kind |-> "none", k |-> 0, i |-> 0, b |-> 0]

\* a byte with bit b flipped (x ^= 1 << b)
FlipBit(byte, b) ==
  IF (byte \div (2 ^ b)) % 2 = 1 THEN byte - 2 ^ b ELSE byte + 2 ^ b

\* a digest with bit b flipped: another 48 bytes, the digest of nothing
FlipDigest(d, b) == <<HClose - 1 - b>> \o d

\* The table read at state st gives e: as recorded, or any e on first use.
Squeezed(x, st, e) == st \in DOMAIN x => x[st] = e

Recorded(x, st, e) == [s \in DOMAIN x \cup {st} |-> IF s = st THEN e ELSE x[s]]

\* log2 of a power of two
Log2(n) == trailing_zeros(n)

\* prove_fib runs to completion on (cfg, air): fold_values finds an even
\* length in every round, and the domains have roots of unity.
Provable(c, a) ==
  LET ext_size == next_power_of_two(trace_len(a)) * (2 ^ c.blowup_log2)
  IN /\ 2 ^ c.num_rounds <= ext_size
     /\ Log2(ext_size) <= TWO_ADICITY

\* the transcript state prove_fib reaches for air
ProverTranscript(a) ==
  LET cols == gen_trace(a)
      n == trace_len(a)
      leaves == [i \in 0..(n - 1) |-> RowLeaf(row_to_bytes([c \in 0..1 |-> cols[c][i]]))]
  IN FsTranscript(FibonacciAir_id, bincode_serialize(public_input(a)),
                  MerkleTree_root(MerkleTree_build(leaves)))

Init ==
  /\ air \in {FibonacciAir_new(a[1], a[2], s) : a \in AirInputs, s \in 0..MaxSteps}
  /\ cfg \in [blowup_log2 : 0..MaxBlowup, num_rounds : 1..MaxRounds, queries : 0..MaxQueries]
  /\ Provable(cfg, air)
  /\ xof = [s \in {} |-> 0]
  /\ phase = "init"
  /\ proof = <<>>
  /\ rvals = <<>>
  /\ content = NoChange
  /\ shape = "none"
  /\ result = "none"
  /\ ParIdle
  /\ LabIdle

\* One execution of Prover::prove_fib.
Prove ==
  /\ phase = "init"
  /\ \E e \in Squeezes :
       LET tr == ProverTranscript(air)
           x == Recorded(xof, tr, e)
           run == ProverRun(cfg, air, x)
       IN /\ Squeezed(xof, tr, e)
          /\ xof' = x
          /\ proof' = run.proof
          /\ rvals' = run.round_values
  /\ phase' = "proved"
  /\ UNCHANGED <<air, cfg, content, shape, result>>
  /\ UNCHANGED <<pvars, lvars>>

\* the proof is as the prover made it
Untouched == phase = "proved" /\ content = NoChange /\ shape = "none"

\* flip bit b of byte i of openings[k].row
TamperRow ==
  /\ Untouched
  /\ \E k \in 1..Len(proof.openings), b \in 0..MaxBit :
       \E i \in 1..Len(proof.openings[k].row) :
         /\ proof' = [proof EXCEPT !.openings[k].row[i] = FlipBit(@, b)]
         /\ content' = [kind |-> "row", k |-> k, i |-> i, b |-> b]
  /\ UNCHANGED <<air, cfg, xof, phase, rvals, shape, result>>
  /\ UNCHANGED <<pvars, lvars>>

\* set openings[k].idx to another row index, in a proof of any shape
TamperIdx ==
  /\ phase = "proved"
  /\ content = NoChange
  /\ \E k \in 1..Len(proof.openings), v \in 0..(proof.n_rows - 1) :
       /\ v # proof.openings[k].idx
       /\ proof' = [proof EXCEPT !.openings[k].idx = v]
       /\ content' = [kind |-> "idx", k |-> k, i |-> v, b |-> 0]
  /\ UNCHANGED <<air, cfg, xof, phase, rvals, shape, result>>
  /\ UNCHANGED <<pvars, lvars>>

\* flip bit b of node i of openings[k].path_next
TamperPathNext ==
  /\ Untouched
  /\ \E k \in 1..Len(proof.openings), b \in 0..MaxBit :
       /\ proof.openings[k].path_next.some
       /\ \E i \in 1..Len(proof.openings[k].path_next.val) :
            /\ proof' = [proof EXCEPT !.openings[k].path_next.val[i] = FlipDigest(@, b)]
            /\ content' = [kind |-> "path_next", k |-> k, i |-> i, b |-> b]
  /\ UNCHANGED <<air, cfg, xof, phase, rvals, shape, result>>
  /\ UNCHANGED <<pvars, lvars>>

\* flip bit b of byte i of pub_input_enc
TamperPubInput ==
  /\ Untouched
  /\ \E i \in 1..Len(proof.pub_input_enc), b \in 0..MaxBit :
       /\ proof' = [proof EXCEPT !.pub_input_enc[i] = FlipBit(@, b)]
       /\ content' = [kind |-> "pub_input", k |-> 0, i |-> i, b |-> b]
  /\ UNCHANGED <<air, cfg, xof, phase, rvals, shape, result>>
  /\ UNCHANGED <<pvars, lvars>>

\* lo and hi exchanged throughout an oracle
SwapHalves(values) == [i \in DOMAIN values |-> values[XorHalf(i, VLen(values) \div 2)]]

\* A dishonest prover commits, as the last round, to the folded oracle with
\* its halves exchanged, and opens its pairs from that.
RecommitLastRound ==
  /\ Untouched
  /\ LET j == Len(rvals)
         w == SwapHalves(rvals[j])
         c == FriProver_commit_round(w)
     IN /\ VLen(w) >= 2
        /\ proof' =
             [proof EXCEPT
                !.fri_rounds.val.rounds[j] = c.commitment,
                !.fri_round_queries.val =
                   [q \in 1..Len(@) |->
                      [@[q] EXCEPT !.rounds[j].pair =
                         FriProver_open_pair(w, c.mt, @.pos)]]]
        /\ content' = [kind |-> "round", k |-> j, i |-> 0, b |-> 0]
  /\ UNCHANGED <<air, cfg, xof, phase, rvals, shape, result>>
  /\ UNCHANGED <<pvars, lvars>>

\* another number of queries, the openings as they are
SetQueries ==
  /\ Untouched
  /\ \E q \in 0..MaxQueries :
       /\ q # proof.queries
       /\ proof' = [proof EXCEPT !.queries = q]
  /\ shape' = "queries"
  /\ UNCHANGED <<air, cfg, xof, phase, rvals, content, result>>
  /\ UNCHANGED <<pvars, lvars>>

\* another number of rows
SetNRows ==
  /\ Untouched
  /\ \E n \in 0..(MaxSteps + 1) :
       /\ n # proof.n_rows
       /\ proof' = [proof EXCEPT !.n_rows = n]
  /\ shape' = "n_rows"
  /\ UNCHANGED <<air, cfg, xof, phase, rvals, content, result>>
  /\ UNCHANGED <<pvars, lvars>>

\* fri_queries present and empty
DropFriQueries ==
  /\ Untouched
  /\ proof.queries > 0
  /\ proof' = [proof EXCEPT !.fri_queries = Some(<<>>)]
  /\ shape' = "fri_queries"
  /\ UNCHANGED <<air, cfg, xof, phase, rvals, content, result>>
  /\ UNCHANGED <<pvars, lvars>>

\* fri_round_queries present and empty
DropRoundQueries ==
  /\ Untouched
  /\ proof.queries > 0
  /\ proof' = [proof EXCEPT !.fri_round_queries = Some(<<>>)]
  /\ shape' = "fri_round_queries"
  /\ UNCHANGED <<air, cfg, xof, phase, rvals, content, result>>
  /\ UNCHANGED <<pvars, lvars>>

\* One call of Verifier::verify_fib on the proof in flight.
Verify ==
  /\ phase = "proved"
  /\ \E e \in Squeezes :
       LET tr == FsTranscript(proof.air_id, proof.pub_input_enc, proof.merkle_root)
           x == Recorded(xof, tr, e)
       IN /\ Squeezed(xof, tr, e)
          /\ xof' = x
          /\ result' = verify_fib(proof, x)
  /\ phase' = "verified"
  /\ UNCHANGED <<air, cfg, proof, rvals, content, shape>>
  /\ UNCHANGED <<pvars, lvars>>

Next ==
  \/ Prove
  \/ TamperRow
  \/ TamperIdx
  \/ TamperPathNext
  \/ TamperPubInput
  \/ RecommitLastRound
  \/ SetQueries
  \/ SetNRows
  \/ DropFriQueries
  \/ DropRoundQueries
  \/ Verify

Spec == Init /\ [][Next]_vars

\* ------------------------------------------------------------------------
\* A dishonest prover: proofs whose parts are consistent with each other
\* ------------------------------------------------------------------------
\* the forged oracle is constant, with value 0 .. MaxForged
MaxForged == 1

\* openings[k] without its next row and the path of it
DropNextRow ==
  /\ Untouched
  /\ \E k \in 1..Len(proof.openings) :
       /\ proof.openings[k].next_row.some
       /\ proof' = [proof EXCEPT !.openings[k].next_row = None,
                                 !.openings[k].path_next = None]
       /\ content' = [kind |-> "next_row", k |-> k, i |-> 0, b |-> 0]
  /\ UNCHANGED <<air, cfg, xof, phase, rvals, shape, result>>
  /\ UNCHANGED <<pvars, lvars>>

\* fri_commitment commits to a constant oracle of the same length, and the
\* oracle openings are taken from it at the same positions
ForgeOracle ==
  /\ Untouched
  /\ \E c \in 0..MaxForged :
       LET len == proof.fri_commitment.val.oracle.len
           w == [i \in 0..(len - 1) |-> Fp_new(c)]
           fc == FriProver_commit(w)
       IN /\ proof' =
               [proof EXCEPT
                  !.fri_commitment = Some(fc.commitment),
                  !.fri_queries.val =
                     [q \in 1..Len(@) |->
                        [oracle_proof |->
                           FriProver_open(fc.mt, @[q].oracle_proof.idx,
                                          w[@[q].oracle_proof.idx])]]]
          /\ content' = [kind |-> "oracle", k |-> 0, i |-> c, b |-> 0]
  /\ UNCHANGED <<air, cfg, xof, phase, rvals, shape, result>>
  /\ UNCHANGED <<pvars, lvars>>

NextForge ==
  \/ Prove
  \/ DropNextRow
  \/ ForgeOracle
  \/ Verify

SpecForge == Init /\ [][NextForge]_vars

\* ------------------------------------------------------------------------
\* FriProver::commit and MerkleTree::build, task by task
\* ------------------------------------------------------------------------
\* a commitment to 1..MaxLeaves values
MaxLeaves == 3

\* each value in 0..MaxValue
MaxValue == 1

ZeroDigest == [i \in 1..DIGEST_LEN |-> 0]

\* no proof is being made or verified
MainIdle ==
  /\ air = FibonacciAir_new(1, 1, 0)
  /\ cfg = [blowup_log2 |-> 1, num_rounds |-> 1, queries |-> 0]
  /\ xof = [s \in {} |-> 0]
  /\ phase = "idle"
  /\ proof = <<>>
  /\ rvals = <<>>
  /\ content = NoChange
  /\ shape = "none"
  /\ result = "none"

InitPar ==
  /\ MainIdle
  /\ LabIdle
  /\ \E len \in 1..MaxLeaves : p_values \in [0..(len - 1) -> 0..MaxValue]
  /\ p_pc = "hash"
  /\ p_leaves = [i \in DOMAIN p_values |-> <<>>]
  /\ p_hashed = {}
  /\ p_nodes = EmptyVec
  /\ p_filled = {}
  /\ p_i = 0
  /\ p_out = <<>>

\* commit: the task of values[i] hashes it into its place of the collection
HashLeafTask ==
  /\ p_pc = "hash"
  /\ \E i \in DOMAIN p_values \ p_hashed :
       /\ p_leaves' = [p_leaves EXCEPT ![i] = FriLeaf(p_values[i])]
       /\ p_hashed' = p_hashed \cup {i}
  /\ UNCHANGED <<p_values, p_pc, p_nodes, p_filled, p_i, p_out>>
  /\ UNCHANGED <<mvars, lvars>>

\* commit: collect() is complete; build allocates 2n zeroed nodes
StartBuild ==
  /\ p_pc = "hash"
  /\ p_hashed = DOMAIN p_values
  /\ p_nodes' = [s \in 0..(2 * next_power_of_two(VLen(p_leaves)) - 1) |-> ZeroDigest]
  /\ p_pc' = "fill"
  /\ UNCHANGED <<p_values, p_leaves, p_hashed, p_filled, p_i, p_out>>
  /\ UNCHANGED <<mvars, lvars>>

\* build: the task of leaf slot i copies its leaf (the last one, beyond the leaves)
FillLeafTask ==
  /\ p_pc = "fill"
  /\ LET n == VLen(p_nodes) \div 2
     IN \E i \in (0..(n - 1)) \ p_filled :
          /\ p_nodes' = [p_nodes EXCEPT ![MerkleLeafSlot(n, i)] = MerkleLeafValue(p_leaves, i)]
          /\ p_filled' = p_filled \cup {i}
  /\ UNCHANGED <<p_values, p_pc, p_leaves, p_hashed, p_i, p_out>>
  /\ UNCHANGED <<mvars, lvars>>

\* build: for_each is complete; the internal-node loop starts at n - 1
StartReduce ==
  /\ p_pc = "fill"
  /\ p_filled = 0..(VLen(p_nodes) \div 2 - 1)
  /\ p_i' = VLen(p_nodes) \div 2 - 1
  /\ p_pc' = "reduce"
  /\ UNCHANGED <<p_values, p_leaves, p_hashed, p_nodes, p_filled, p_out>>
  /\ UNCHANGED <<mvars, lvars>>

\* build: one iteration of the internal-node loop
ReduceNode ==
  /\ p_pc = "reduce"
  /\ p_i >= 1
  /\ p_nodes' = [p_nodes EXCEPT ![p_i] =
                   h2(DOM_MERKLE_NODE, p_nodes[2 * p_i], p_nodes[2 * p_i + 1])]
  /\ p_i' = p_i - 1
  /\ UNCHANGED <<p_values, p_pc, p_leaves, p_hashed, p_filled, p_out>>
  /\ UNCHANGED <<mvars, lvars>>

\* commit: the root is read and the commitment returned
ReturnCommit ==
  /\ p_pc = "reduce"
  /\ p_i = 0
  /\ p_out' = [oracle |-> [root |-> MerkleTree_root(p_nodes), len |-> VLen(p_values)]]
  /\ p_pc' = "done"
  /\ UNCHANGED <<p_values, p_leaves, p_hashed, p_nodes, p_filled, p_i>>
  /\ UNCHANGED <<mvars, lvars>>

NextPar ==
  \/ HashLeafTask
  \/ StartBuild
  \/ FillLeafTask
  \/ StartReduce
  \/ ReduceNode
  \/ ReturnCommit

SpecPar == InitPar /\ [][NextPar]_vars

\* ------------------------------------------------------------------------
\* Transcript: absorbs and reads on two transcripts of one domain
\* ------------------------------------------------------------------------
\* each transcript absorbs at most MaxAbsorbs pairs
MaxAbsorbs == 2

\* a read asks for 0..MaxOut bytes
MaxOut == 1

\* the bytes squeezed are in 0..MaxOutByte
MaxOutByte == 1

\* "ns"
TR_DOMAIN == <<110, 115>>

\* labels: "k" and "k\0" (a Rust str may hold a NUL; it never holds 0xFF)
TrLabels == {<<107>>, <<107, 0>>}

\* data: the empty string and the one byte 0
TrData == {<<>>, <<0>>}

TrStreams == [1..MaxOut -> 0..MaxOutByte]

\* Transcript::challenge_bytes: the first out_len bytes squeezed from the state
challenge_bytes(x, state, out_len) == SubSeq(x[state], 1, out_len)

\* a read that ratchets the state
AfterRead_ratchet(state) == shake256_384(state)

\* the state a read leaves: challenge_bytes, challenge_u64 and rng take &self
AfterRead(state) == state

\* the state after absorbing the pairs of hist from i on
RECURSIVE Replay(_, _, _)
Replay(state, hist, i) ==
  IF i > Len(hist) THEN state
  ELSE Replay(absorb(state, hist[i].label, hist[i].data), hist, i + 1)

InitTr ==
  /\ MainIdle
  /\ ParIdle
  /\ MerkleIdle
  /\ FriIdle
  /\ HashIdle
  /\ FieldIdle
  /\ NttIdle
  /\ LdeIdle
  /\ AirIdle
  /\ FrameIdle
  /\ ExecIdle
  /\ t_state = [t \in 1..2 |-> Transcript_new(TR_DOMAIN)]
  /\ t_hist = [t \in 1..2 |-> <<>>]
  /\ t_read = [t \in 1..2 |-> NoRead]
  /\ t_xof = [s \in {} |-> <<>>]

\* Transcript::absorb on one of the two
TrAbsorb ==
  /\ \E t \in 1..2, label \in TrLabels, data \in TrData :
       /\ Len(t_hist[t]) < MaxAbsorbs
       /\ t_state' = [t_state EXCEPT ![t] = absorb(@, label, data)]
       /\ t_hist' = [t_hist EXCEPT ![t] = Append(@, [label |-> label, data |-> data])]
  /\ UNCHANGED <<t_read, t_xof>>
  /\ UNCHANGED <<mvars, pvars, kvars, fvars, hvars, xvars, nvars, dvars, cvars, gvars, evars>>

\* Transcript::challenge_bytes(n) on one of the two (challenge_u64 and rng
\* are challenge_bytes(8) and challenge_bytes(32))
TrRead ==
  /\ \E t \in 1..2, n \in 0..MaxOut, e \in TrStreams :
       LET x == Recorded(t_xof, t_state[t], e)
       IN /\ Squeezed(t_xof, t_state[t], e)
          /\ t_xof' = x
          /\ t_read' = [t_read EXCEPT ![t] =
                          [at |-> Len(t_hist[t]), n |-> n,
                           bytes |-> challenge_bytes(x, t_state[t], n)]]
          /\ t_state' = [t_state EXCEPT ![t] = AfterRead(@)]
  /\ UNCHANGED t_hist
  /\ UNCHANGED <<mvars, pvars, kvars, fvars, hvars, xvars, nvars, dvars, cvars, gvars, evars>>

NextTr ==
  \/ TrAbsorb
  \/ TrRead

SpecTr == InitTr /\ [][NextTr]_vars

\* ------------------------------------------------------------------------
\* MerkleTree: build, open, and verify on the opening as given or changed
\* ------------------------------------------------------------------------
\* everything but the tree under test
not_kvars == <<mvars, pvars, tvars, fvars, hvars, xvars, nvars, dvars, cvars, gvars, evars>>

\* the number of levels below the root
MerkleDepth(mt) == trailing_zeros(VLen(mt) \div 2)

InitMerkle ==
  /\ MainIdle
  /\ ParIdle
  /\ TrIdle
  /\ FriIdle
  /\ HashIdle
  /\ FieldIdle
  /\ NttIdle
  /\ LdeIdle
  /\ AirIdle
  /\ FrameIdle
  /\ ExecIdle
  /\ \E len \in 1..MaxLeaves :
       \E vals \in [0..(len - 1) -> 0..MaxValue] :
         k_leaves = [i \in 0..(len - 1) |-> FriLeaf(vals[i])]
  /\ k_tree = MerkleTree_build(k_leaves)
  /\ k_pc = "built"
  /\ k_idx = 0
  /\ k_leaf = <<>>
  /\ k_path = <<>>
  /\ k_change = "none"
  /\ k_ok = FALSE

\* MerkleTree::open at an index below the padded size, with the leaf there
MkOpen ==
  /\ k_pc = "built"
  /\ \E i \in 0..(VLen(k_tree) \div 2 - 1) :
       /\ k_idx' = i
       /\ k_leaf' = k_tree[VLen(k_tree) \div 2 + i]
       /\ k_path' = MerkleTree_open(k_tree, i)
  /\ k_pc' = "opened"
  /\ UNCHANGED <<k_leaves, k_tree, k_change, k_ok>>
  /\ UNCHANGED not_kvars

\* one bit of the leaf flipped
MkFlipLeaf ==
  /\ k_pc = "opened" /\ k_change = "none"
  /\ \E b \in 0..MaxBit : k_leaf' = FlipDigest(k_leaf, b)
  /\ k_change' = "leaf"
  /\ UNCHANGED <<k_leaves, k_tree, k_pc, k_idx, k_path, k_ok>>
  /\ UNCHANGED not_kvars

\* one bit of one sibling flipped
MkFlipPath ==
  /\ k_pc = "opened" /\ k_change = "none"
  /\ \E j \in 1..Len(k_path), b \in 0..MaxBit :
       k_path' = [k_path EXCEPT ![j] = FlipDigest(@, b)]
  /\ k_change' = "path"
  /\ UNCHANGED <<k_leaves, k_tree, k_pc, k_idx, k_leaf, k_ok>>
  /\ UNCHANGED not_kvars

\* the opening of i presented for the index i + padded size
MkShiftIdx ==
  /\ k_pc = "opened" /\ k_change = "none"
  /\ k_idx' = k_idx + VLen(k_tree) \div 2
  /\ k_change' = "idx"
  /\ UNCHANGED <<k_leaves, k_tree, k_pc, k_leaf, k_path, k_ok>>
  /\ UNCHANGED not_kvars

\* the node above the leaf presented as a leaf, with the rest of the path
MkUpOneLevel ==
  /\ k_pc = "opened" /\ k_change = "none"
  /\ Len(k_path) >= 1
  /\ k_leaf' = k_tree[(VLen(k_tree) \div 2 + k_idx) \div 2]
  /\ k_idx' = k_idx \div 2
  /\ k_path' = Tail(k_path)
  /\ k_change' = "level"
  /\ UNCHANGED <<k_leaves, k_tree, k_pc, k_ok>>
  /\ UNCHANGED not_kvars

\* MerkleTree::verify on what is presented
MkVerify ==
  /\ k_pc = "opened"
  /\ k_ok' = MerkleTree_verify(MerkleTree_root(k_tree), k_idx, k_leaf, k_path)
  /\ k_pc' = "verified"
  /\ UNCHANGED <<k_leaves, k_tree, k_idx, k_leaf, k_path, k_change>>
  /\ UNCHANGED not_kvars

NextMerkle ==
  \/ MkOpen
  \/ MkFlipLeaf
  \/ MkFlipPath
  \/ MkShiftIdx
  \/ MkUpOneLevel
  \/ MkVerify

SpecMerkle == InitMerkle /\ [][NextMerkle]_vars

\* ------------------------------------------------------------------------
\* FRI: commit, open_pair, verify_pair and fold_values on one oracle
\* ------------------------------------------------------------------------
\* the oracle has 2^1 .. 2^MaxLogLen values
MaxLogLen == 2

\* the folding challenge is in 0..MaxAlpha
MaxAlpha == 2

\* everything but the oracle under test
not_fvars == <<mvars, pvars, tvars, kvars, hvars, xvars, nvars, dvars, cvars, gvars, evars>>

InitFri ==
  /\ MainIdle
  /\ ParIdle
  /\ TrIdle
  /\ MerkleIdle
  /\ HashIdle
  /\ FieldIdle
  /\ NttIdle
  /\ LdeIdle
  /\ AirIdle
  /\ FrameIdle
  /\ ExecIdle
  /\ \E l \in 1..MaxLogLen : f_values \in [0..(2 ^ l - 1) -> 0..MaxValue]
  /\ f_alpha \in 0..MaxAlpha
  /\ f_pc = "start"
  /\ f_commit = <<>>
  /\ f_pair = <<>>
  /\ f_ok = FALSE
  /\ f_folded = EmptyVec

\* FriProver::commit(V0)
FriCommit ==
  /\ f_pc = "start"
  /\ f_commit' = FriProver_commit(f_values)
  /\ f_pc' = "committed"
  /\ UNCHANGED <<f_values, f_alpha, f_pair, f_ok, f_folded>>
  /\ UNCHANGED not_fvars

\* FriProver::open_pair(V0, mt, pos) at a position of the oracle
FriOpenPair ==
  /\ f_pc = "committed"
  /\ \E pos \in 0..(VLen(f_values) - 1) :
       f_pair' = FriProver_open_pair(f_values, f_commit.mt, pos)
  /\ f_pc' = "opened"
  /\ UNCHANGED <<f_values, f_alpha, f_commit, f_ok, f_folded>>
  /\ UNCHANGED not_fvars

\* FriVerifier::verify_pair(root_0, L0, pair)
FriVerifyPair ==
  /\ f_pc = "opened"
  /\ f_ok' = FriVerifier_verify_pair(f_commit.commitment.oracle.root,
                                     f_commit.commitment.oracle.len, f_pair)
  /\ f_pc' = "verified"
  /\ UNCHANGED <<f_values, f_alpha, f_commit, f_pair, f_folded>>
  /\ UNCHANGED not_fvars

\* FriProver::fold_values(alpha, V0)
FriFold ==
  /\ f_pc = "verified"
  /\ f_folded' = FriProver_fold_values(Fp_new(f_alpha), f_values)
  /\ f_pc' = "folded"
  /\ UNCHANGED <<f_values, f_alpha, f_commit, f_pair, f_ok>>
  /\ UNCHANGED not_fvars

NextFri ==
  \/ FriCommit
  \/ FriOpenPair
  \/ FriVerifyPair
  \/ FriFold

SpecFri == InitFri /\ [][NextFri]_vars

\* ------------------------------------------------------------------------
\* h_many: one call
\* ------------------------------------------------------------------------
\* a call has 0..MaxParts parts
MaxParts == 257

\* everything but the call of h_many
not_hvars == <<mvars, pvars, tvars, kvars, fvars, xvars, nvars, dvars, cvars, gvars, evars>>

\* the parts are all the empty string, or all the one byte 1
HParts == {<<>>, <<1>>}

InitHash ==
  /\ MainIdle
  /\ ParIdle
  /\ TrIdle
  /\ MerkleIdle
  /\ FriIdle
  /\ FieldIdle
  /\ NttIdle
  /\ LdeIdle
  /\ AirIdle
  /\ FrameIdle
  /\ ExecIdle
  /\ h_label \in {DOM_ROW, DOM_ACCUMULATOR}
  /\ \E n \in 0..MaxParts, part \in HParts : h_parts = [i \in 1..n |-> part]
  /\ h_pc = "call"
  /\ h_out = None

\* h_many(label, parts): it returns a digest, whatever the number of parts
HashMany ==
  /\ h_pc = "call"
  /\ h_out' = Some(h_many(h_label, h_parts))
  /\ h_pc' = "returned"
  /\ UNCHANGED <<h_label, h_parts>>
  /\ UNCHANGED not_hvars

NextHash ==
  \/ HashMany

SpecHash == InitHash /\ [][NextHash]_vars

\* ------------------------------------------------------------------------
\* Field arithmetic: one operation on two words
\* ------------------------------------------------------------------------
\* everything but the field operation
not_xvars == <<mvars, pvars, tvars, kvars, fvars, hvars, nvars, dvars, cvars, gvars, evars>>

\* a word holds a canonical field element
Canonical(x) == x \in 0..(MODULUS - 1)

\* every pair of machine words
InitField ==
  /\ MainIdle
  /\ ParIdle
  /\ TrIdle
  /\ MerkleIdle
  /\ FriIdle
  /\ HashIdle
  /\ NttIdle
  /\ LdeIdle
  /\ AirIdle
  /\ FrameIdle
  /\ ExecIdle
  /\ x_a \in 0..(WORD - 1)
  /\ x_b \in 0..(WORD - 1)
  /\ x_pc = "in"
  /\ x_op = "none"
  /\ x_out = [r |-> 0, back |-> 0]

\* Fp(a) + Fp(b), then - Fp(b)
FieldAdd ==
  /\ x_pc = "in"
  /\ Canonical(x_a) /\ Canonical(x_b)
  /\ LET r == Fp_add(x_a, x_b)
     IN x_out' = [r |-> r, back |-> Fp_sub(r, x_b)]
  /\ x_op' = "add"
  /\ x_pc' = "done"
  /\ UNCHANGED <<x_a, x_b>>
  /\ UNCHANGED not_xvars

\* Fp(a) - Fp(b), then + Fp(b)
FieldSub ==
  /\ x_pc = "in"
  /\ Canonical(x_a) /\ Canonical(x_b)
  /\ LET r == Fp_sub(x_a, x_b)
     IN x_out' = [r |-> r, back |-> Fp_add(r, x_b)]
  /\ x_op' = "sub"
  /\ x_pc' = "done"
  /\ UNCHANGED <<x_a, x_b>>
  /\ UNCHANGED not_xvars

\* -Fp(a), then + Fp(a), for any word a: the value a release build returns
FieldNeg ==
  /\ x_pc = "in"
  /\ x_b = 0
  /\ LET r == Fp_neg(x_a)
     IN x_out' = [r |-> r, back |-> Fp_add(r, x_a)]
  /\ x_op' = "neg"
  /\ x_pc' = "done"
  /\ UNCHANGED <<x_a, x_b>>
  /\ UNCHANGED not_xvars

\* -Fp(a) in a debug build, for a word above MODULUS: the subtraction
\* overflows and the build panics
FieldNegDebugPanic ==
  /\ x_pc = "in"
  /\ x_b = 0
  /\ Fp_neg_overflows(x_a)
  /\ x_op' = "neg"
  /\ x_pc' = "panicked"
  /\ UNCHANGED <<x_a, x_b, x_out>>
  /\ UNCHANGED not_xvars

\* Fp(a) * Fp(b), then * Fp(b).inv()
FieldMul ==
  /\ x_pc = "in"
  /\ Canonical(x_a) /\ Canonical(x_b)
  /\ LET r == Fp_mul(x_a, x_b)
     IN x_out' = [r |-> r, back |-> Fp_mul(r, Fp_inv(x_b))]
  /\ x_op' = "mul"
  /\ x_pc' = "done"
  /\ UNCHANGED <<x_a, x_b>>
  /\ UNCHANGED not_xvars

\* Fp(b).inv(), then Fp(b) * it
FieldInv ==
  /\ x_pc = "in"
  /\ x_a = 0 /\ Canonical(x_b)
  /\ LET r == Fp_inv(x_b)
     IN x_out' = [r |-> r, back |-> Fp_mul(x_b, r)]
  /\ x_op' = "inv"
  /\ x_pc' = "done"
  /\ UNCHANGED <<x_a, x_b>>
  /\ UNCHANGED not_xvars

\* Fp::new(a) * Fp::new(b) on any two words
FieldNewMul ==
  /\ x_pc = "in"
  /\ LET r == Fp_mul(Fp_new(x_a), Fp_new(x_b))
     IN x_out' = [r |-> r, back |-> r]
  /\ x_op' = "new"
  /\ x_pc' = "done"
  /\ UNCHANGED <<x_a, x_b>>
  /\ UNCHANGED not_xvars

NextField ==
  \/ FieldAdd
  \/ FieldSub
  \/ FieldNeg
  \/ FieldNegDebugPanic
  \/ FieldMul
  \/ FieldInv
  \/ FieldNewMul

SpecField == InitField /\ [][NextField]_vars

\* ------------------------------------------------------------------------
\* NTT: a forward transform and the inverse transform of its result
\* ------------------------------------------------------------------------
\* the vectors have 2^0 .. 2^MaxLogN entries
MaxLogN == 4

\* everything but the transform
not_nvars == <<mvars, pvars, tvars, kvars, fvars, hvars, xvars, dvars, cvars, gvars, evars>>

\* the entries: zero, one and the largest element
NttElems == {Fp_zero, Fp_one, MODULUS - 1}

\* the vectors of n entries that are constant but for two of them
NttVectors(n) ==
  { [i \in 0..(n - 1) |-> IF i = k1 \/ i = k2 THEN hi ELSE lo] :
      k1 \in 0..(n - 1), k2 \in 0..(n - 1), lo \in NttElems, hi \in NttElems }

\* the root the callers pass: root_of_unity(log2 n)
NttRoot(a) == root_of_unity(Log2(VLen(a)))

InitNtt ==
  /\ MainIdle
  /\ ParIdle
  /\ TrIdle
  /\ MerkleIdle
  /\ FriIdle
  /\ HashIdle
  /\ FieldIdle
  /\ LdeIdle
  /\ AirIdle
  /\ FrameIdle
  /\ ExecIdle
  /\ \E k \in 0..MaxLogN : n_a \in NttVectors(2 ^ k)
  /\ n_pc = "in"
  /\ n_fft = EmptyVec
  /\ n_back = EmptyVec

\* fft_in_place(a, w)
NttForward ==
  /\ n_pc = "in"
  /\ n_fft' = fft_in_place(n_a, NttRoot(n_a))
  /\ n_pc' = "fft"
  /\ UNCHANGED <<n_a, n_back>>
  /\ UNCHANGED not_nvars

\* ifft_in_place(a, w) on the transformed vector
NttInverse ==
  /\ n_pc = "fft"
  /\ n_back' = ifft_in_place(n_fft, NttRoot(n_fft))
  /\ n_pc' = "ifft"
  /\ UNCHANGED <<n_a, n_fft>>
  /\ UNCHANGED not_nvars

NextNtt ==
  \/ NttForward
  \/ NttInverse

SpecNtt == InitNtt /\ [][NextNtt]_vars

\* ------------------------------------------------------------------------
\* LDE: one call of lde_from_evals
\* ------------------------------------------------------------------------
\* the base vectors have 2^0 .. 2^MaxLdeLog entries
MaxLdeLog == 3

\* blowup_log2 is 0 .. MaxLdeBlowup
MaxLdeBlowup == 3

\* everything but the call of lde_from_evals
not_dvars == <<mvars, pvars, tvars, kvars, fvars, hvars, xvars, nvars, cvars, gvars, evars>>

\* the debug_assert_eq of root_of_unity: w^(2^power) = 1
root_of_unity_asserted(power) ==
  /\ ~root_of_unity_shift_overflows(power)
  /\ Fp_pow(root_of_unity(power), 2 ^ power) = Fp_one

\* the two calls of root_of_unity in lde_from_evals pass their assertion
LdeRootsAsserted(base_evals, blowup_log2) ==
  LET n_base == next_power_of_two(VLen(base_evals))
  IN /\ root_of_unity_asserted(trailing_zeros(n_base))
     /\ root_of_unity_asserted(trailing_zeros(n_base * (2 ^ blowup_log2)))

InitLde ==
  /\ MainIdle
  /\ ParIdle
  /\ TrIdle
  /\ MerkleIdle
  /\ FriIdle
  /\ HashIdle
  /\ FieldIdle
  /\ NttIdle
  /\ AirIdle
  /\ FrameIdle
  /\ ExecIdle
  /\ \E k \in 0..MaxLdeLog : d_base \in NttVectors(2 ^ k)
  /\ d_r \in 0..MaxLdeBlowup
  /\ d_pc = "call"
  /\ d_out = EmptyVec

\* lde_from_evals(base, r) returns: a release build, or a debug build whose
\* assertions pass
LdeFromEvals ==
  /\ d_pc = "call"
  /\ d_out' = lde_from_evals(d_base, d_r)
  /\ d_pc' = "returned"
  /\ UNCHANGED <<d_base, d_r>>
  /\ UNCHANGED not_dvars

\* lde_from_evals(base, r) in a debug build, when root_of_unity is asked for
\* a root the field does not have
LdeDebugPanic ==
  /\ d_pc = "call"
  /\ ~LdeRootsAsserted(d_base, d_r)
  /\ d_pc' = "panicked"
  /\ UNCHANGED <<d_base, d_r, d_out>>
  /\ UNCHANGED not_dvars

NextLde ==
  \/ LdeFromEvals
  \/ LdeDebugPanic

SpecLde == InitLde /\ [][NextLde]_vars

\* ------------------------------------------------------------------------
\* The Fibonacci AIR: one row checked and evaluated
\* ------------------------------------------------------------------------
\* the row index is 0 .. MaxRowIdx
MaxRowIdx == 1

\* everything but the row under test
not_cvars == <<mvars, pvars, tvars, kvars, fvars, hvars, xvars, nvars, dvars, gvars, evars>>

\* the entries of the rows: field elements
AirElems == {0, 1, 2, MODULUS - 1}

\* the u64 fields of the public input: the same, and a word that is no
\* canonical element
AirWords == AirElems \cup {MODULUS}

AirRows == [0..1 -> AirElems]

InitAir ==
  /\ MainIdle
  /\ ParIdle
  /\ TrIdle
  /\ MerkleIdle
  /\ FriIdle
  /\ HashIdle
  /\ FieldIdle
  /\ NttIdle
  /\ LdeIdle
  /\ FrameIdle
  /\ ExecIdle
  /\ c_i \in 0..MaxRowIdx
  /\ c_row \in AirRows
  /\ c_next \in {None} \cup {Some(r) : r \in AirRows}
  /\ c_pub \in [steps : {1}, a0 : AirWords, a1 : AirWords,
                expected_first : AirWords]
  /\ c_pc = "call"
  /\ c_ok = "none"
  /\ c_evals = EmptyVec

\* FibonacciAir::check_row(i, row, next, pub_inp)
AirCheckRow ==
  /\ c_pc = "call"
  /\ c_ok' = check_row(c_i, c_row, c_next, c_pub)
  /\ c_pc' = "checked"
  /\ UNCHANGED <<c_i, c_row, c_next, c_pub, c_evals>>
  /\ UNCHANGED not_cvars

\* air.eval_constraints(i, row, next, pub_inp)
AirEvalConstraints ==
  /\ c_pc = "checked"
  /\ c_evals' = eval_constraints(c_i, c_row, c_next, c_pub)
  /\ c_pc' = "evaluated"
  /\ UNCHANGED <<c_i, c_row, c_next, c_pub, c_ok>>
  /\ UNCHANGED not_cvars

NextAir ==
  \/ AirCheckRow
  \/ AirEvalConstraints

SpecAir == InitAir /\ [][NextAir]_vars

\* ------------------------------------------------------------------------
\* h_many and accumulate on two part lists
\* ------------------------------------------------------------------------
\* a list has 0 .. MaxFrameParts parts
MaxFrameParts == 2

\* a part has 0 .. MaxPartLen bytes
MaxPartLen == 2

\* a byte of a part is 0 .. MaxPartByte
MaxPartByte == 1

\* everything but the part lists
not_gvars ==
  <<mvars, pvars, tvars, kvars, fvars, hvars, xvars, nvars, dvars, cvars, evars>>

FrameParts == UNION {[1..n -> 0..MaxPartByte] : n \in 0..MaxPartLen}

FrameLists == UNION {[1..n -> FrameParts] : n \in 0..MaxFrameParts}

InitFrame ==
  /\ MainIdle
  /\ ParIdle
  /\ TrIdle
  /\ MerkleIdle
  /\ FriIdle
  /\ HashIdle
  /\ FieldIdle
  /\ NttIdle
  /\ LdeIdle
  /\ AirIdle
  /\ ExecIdle
  /\ g_a \in FrameLists
  /\ g_b \in FrameLists
  /\ g_pc = "call"
  /\ g_ha = <<>>
  /\ g_hb = <<>>

\* h_many(label, a) and h_many(label, b)
FrameHashMany ==
  /\ g_pc = "call"
  /\ g_ha' = h_many(DOM_ACCUMULATOR, g_a)
  /\ g_hb' = h_many(DOM_ACCUMULATOR, g_b)
  /\ g_pc' = "hashed"
  /\ UNCHANGED <<g_a, g_b>>
  /\ UNCHANGED not_gvars

\* accumulate(None, c) for a = [c] and accumulate(Some(p), c') for
\* b = [p, c']
FrameAccumulate ==
  /\ g_pc = "call"
  /\ Len(g_a) = 1
  /\ Len(g_b) = 2
  /\ g_ha' = accumulate(None, g_a[1])
  /\ g_hb' = accumulate(Some(g_b[1]), g_b[2])
  /\ g_pc' = "accumulated"
  /\ UNCHANGED <<g_a, g_b>>
  /\ UNCHANGED not_gvars

NextFrame ==
  \/ FrameHashMany
  \/ FrameAccumulate

SpecFrame == InitFrame /\ [][NextFrame]_vars

\* ------------------------------------------------------------------------
\* Two executions of Prover::prove_fib, statement by statement
\* ------------------------------------------------------------------------
\* Each execution has its own local variables and its own Transcript; the
\* two are interleaved freely.  SHAKE256 is the one thing they share: a
\* state that has not been squeezed yet may squeeze anything, a state that
\* has squeezes the same again.  The worker tasks of MerkleTree::build and
\* FriProver::commit are stepped one by one under SpecPar.
Execs == 1..2

\* the locals of prove_fib before they are assigned
NoLocals ==
  [rows |-> <<>>, mt |-> <<>>, tr |-> <<>>, rng_mask |-> <<>>, mask_evals |-> <<>>,
   fri_values |-> <<>>, fc |-> <<>>, round_mts |-> <<>>,
   current_values |-> <<>>, rng |-> <<>>, openings |-> <<>>,
   fri_queries |-> <<>>, fri_round_queries |-> <<>>]

\* the output streams a StdRng can have
Generators == [1..NumDraws -> 0..MaxDraw]

\* a generator seeded from the operating system (StdRng::from_entropy)
\* and not from the transcript
rng_from_entropy(x, st, g) == g \in Generators

\* g is the generator Transcript::rng returns at state st:
\* StdRng::from_seed(challenge_bytes(32))
Transcript_rng(x, st, g) == g = rng(x, st)

\* everything but the two executions
not_evars ==
  <<mvars, pvars, tvars, kvars, fvars, hvars, xvars, nvars, dvars, cvars, gvars>>

InitExec ==
  /\ MainIdle
  /\ ParIdle
  /\ TrIdle
  /\ MerkleIdle
  /\ FriIdle
  /\ HashIdle
  /\ FieldIdle
  /\ NttIdle
  /\ LdeIdle
  /\ AirIdle
  /\ FrameIdle
  /\ e_air \in {FibonacciAir_new(a[1], a[2], s) : a \in AirInputs, s \in 0..MaxSteps}
  /\ e_cfg \in [blowup_log2 : 0..MaxBlowup, num_rounds : 1..MaxRounds, queries : 0..MaxQueries]
  /\ Provable(e_cfg, e_air)
  /\ e_xof = [s \in {} |-> 0]
  /\ e_pc = [r \in Execs |-> "rows"]
  /\ e_loc = [r \in Execs |-> NoLocals]
  /\ e_ret = [r \in Execs |-> <<>>]

\* The rows, their leaves and tree, and the transcript with air_id,
\* pub_input and root absorbed.
ExecRows(r) ==
  /\ e_pc[r] = "rows"
  /\ LET pub_inp_enc == bincode_serialize(public_input(e_air))
         cols == gen_trace(e_air)
         n == trace_len(e_air)
         rows == [i \in 0..(n - 1) |-> row_to_bytes([c \in 0..1 |-> cols[c][i]])]
         leaves == [i \in 0..(n - 1) |-> RowLeaf(rows[i])]
         mt == MerkleTree_build(leaves)
         tr == FsTranscript(FibonacciAir_id, pub_inp_enc, MerkleTree_root(mt))
     IN e_loc' = [e_loc EXCEPT ![r] = [@ EXCEPT !.rows = rows, !.mt = mt, !.tr = tr]]
  /\ e_pc' = [e_pc EXCEPT ![r] = "mask"]
  /\ UNCHANGED <<e_air, e_cfg, e_xof, e_ret>>
  /\ UNCHANGED not_evars

\* rng_mask = tr.rng(), r0 and r1 from it, and mask_evals.
ExecMask(r) ==
  /\ e_pc[r] = "mask"
  /\ \E e \in Squeezes, rng_mask \in Generators :
       LET tr == e_loc[r].tr
           x == Recorded(e_xof, tr, e)
           base_pow2 == next_power_of_two(trace_len(e_air))
           ext_size == base_pow2 * (2 ^ e_cfg.blowup_log2)
           r0 == Fp_new(next_u64(rng_mask, 0))
           r1 == Fp_new(next_u64(rng_mask, 1))
           r_eval == eval_poly_on_domain([i \in 0..1 |-> IF i = 0 THEN r0 ELSE r1], ext_size)
           z_base == vanishing_on_extended(ext_size, base_pow2)
           mask_evals == [i \in 0..(ext_size - 1) |-> Fp_mul(r_eval[i], z_base[i])]
       IN /\ Squeezed(e_xof, tr, e)
          /\ Transcript_rng(x, tr, rng_mask)
          /\ e_xof' = x
          /\ e_loc' = [e_loc EXCEPT ![r] =
                         [@ EXCEPT !.rng_mask = rng_mask, !.mask_evals = mask_evals]]
  /\ e_pc' = [e_pc EXCEPT ![r] = "compose"]
  /\ UNCHANGED <<e_air, e_cfg, e_ret>>
  /\ UNCHANGED not_evars

\* The column extensions, gamma0 and gamma1, fri_values and its commitment.
ExecCompose(r) ==
  /\ e_pc[r] = "compose"
  /\ \E e \in Squeezes :
       LET tr == e_loc[r].tr
           x == Recorded(e_xof, tr, e)
           cols == gen_trace(e_air)
           base_pow2 == next_power_of_two(trace_len(e_air))
           ext_size == base_pow2 * (2 ^ e_cfg.blowup_log2)
           col0_ext == lde_from_evals(cols[0], e_cfg.blowup_log2)
           col1_ext == lde_from_evals(cols[1], e_cfg.blowup_log2)
           gamma0 == Fp_new(challenge_u64(x, tr))
           gamma1 == Fp_new(challenge_u64(x, tr))
           fri_values == [i \in 0..(ext_size - 1) |->
                            Fp_add(Fp_add(Fp_mul(gamma0, col0_ext[i]),
                                          Fp_mul(gamma1, col1_ext[i])),
                                   e_loc[r].mask_evals[i])]
       IN /\ Squeezed(e_xof, tr, e)
          /\ e_xof' = x
          /\ e_loc' = [e_loc EXCEPT ![r] =
                         [@ EXCEPT !.fri_values = fri_values,
                                   !.fc = FriProver_commit(fri_values),
                                   !.current_values = fri_values]]
  /\ e_pc' = [e_pc EXCEPT ![r] = "fold"]
  /\ UNCHANGED <<e_air, e_cfg, e_ret>>
  /\ UNCHANGED not_evars

\* One pass of the folding loop: alpha, fold_values, commit_round, push.
ExecFoldRound(r) ==
  /\ e_pc[r] = "fold"
  /\ Len(e_loc[r].round_mts) < e_cfg.num_rounds
  /\ \E e \in Squeezes :
       LET tr == e_loc[r].tr
           x == Recorded(e_xof, tr, e)
           alpha == Fp_new(challenge_u64(x, tr))
           folded == FriProver_fold_values(alpha, e_loc[r].current_values)
           c == FriProver_commit_round(folded)
       IN /\ Squeezed(e_xof, tr, e)
          /\ e_xof' = x
          /\ e_loc' = [e_loc EXCEPT ![r] =
                         [@ EXCEPT !.round_mts =
                                     Append(@, [values |-> folded, rc |-> c.commitment, mt |-> c.mt]),
                                   !.current_values = folded]]
  /\ UNCHANGED <<e_air, e_cfg, e_pc, e_ret>>
  /\ UNCHANGED not_evars

\* rng = tr.rng() after the last round, before the query loop.
ExecSeedQueries(r) ==
  /\ e_pc[r] = "fold"
  /\ Len(e_loc[r].round_mts) = e_cfg.num_rounds
  /\ \E e \in Squeezes, query_rng \in Generators :
       LET tr == e_loc[r].tr
           x == Recorded(e_xof, tr, e)
       IN /\ Squeezed(e_xof, tr, e)
          /\ Transcript_rng(x, tr, query_rng)
          /\ e_xof' = x
          /\ e_loc' = [e_loc EXCEPT ![r] = [@ EXCEPT !.rng = query_rng]]
  /\ e_pc' = [e_pc EXCEPT ![r] = "query"]
  /\ UNCHANGED <<e_air, e_cfg, e_ret>>
  /\ UNCHANGED not_evars

\* One pass of the query loop: idx from the generator, the row opening, the
\* oracle opening and the pair of each round.
ExecQuery(r) ==
  /\ e_pc[r] = "query"
  /\ Len(e_loc[r].openings) < e_cfg.queries
  /\ LET l == e_loc[r]
         n == trace_len(e_air)
         idx == next_u64(l.rng, Len(l.openings)) % n
         opening ==
           [idx |-> idx,
            row |-> l.rows[idx],
            next_row |-> IF idx + 1 < n THEN Some(l.rows[idx + 1]) ELSE None,
            path_row |-> MerkleTree_open(l.mt, idx),
            path_next |-> IF idx + 1 < n THEN Some(MerkleTree_open(l.mt, idx + 1)) ELSE None]
         ext_idx == idx * (2 ^ e_cfg.blowup_log2)
         oracle_proof == FriProver_open(l.fc.mt, ext_idx, l.fri_values[ext_idx])
         rounds_vec ==
           [j \in 1..Len(l.round_mts) |->
              [pair |-> FriProver_open_pair(l.round_mts[j].values, l.round_mts[j].mt,
                                            ext_idx % VLen(l.round_mts[j].values))]]
     IN e_loc' = [e_loc EXCEPT ![r] =
                    [@ EXCEPT !.openings = Append(@, opening),
                              !.fri_queries = Append(@, [oracle_proof |-> oracle_proof]),
                              !.fri_round_queries = Append(@, [rounds |-> rounds_vec])]]
  /\ UNCHANGED <<e_air, e_cfg, e_xof, e_pc, e_ret>>
  /\ UNCHANGED not_evars

\* The digest and the ProofV1 returned.
ExecReturn(r) ==
  /\ e_pc[r] = "query"
  /\ Len(e_loc[r].openings) = e_cfg.queries
  /\ LET l == e_loc[r]
         pub_inp_enc == bincode_serialize(public_input(e_air))
         root == MerkleTree_root(l.mt)
     IN e_ret' = [e_ret EXCEPT ![r] =
          [version |-> 1,
           air_id |-> FibonacciAir_id,
           pub_input_enc |-> pub_inp_enc,
           merkle_root |-> root,
           n_rows |-> trace_len(e_air),
           n_cols |-> n_cols(e_air),
           queries |-> e_cfg.queries,
           openings |-> l.openings,
           fri_commitment |-> Some(l.fc.commitment),
           fri_queries |-> Some(l.fri_queries),
           fri_rounds |-> Some([rounds |-> [j \in 1..Len(l.round_mts) |-> l.round_mts[j].rc]]),
           fri_round_queries |-> Some(l.fri_round_queries),
           proof_digest |-> ProofDigest(root, pub_inp_enc, e_cfg.queries)]]
  /\ e_pc' = [e_pc EXCEPT ![r] = "done"]
  /\ UNCHANGED <<e_air, e_cfg, e_xof, e_loc>>
  /\ UNCHANGED not_evars

NextExec ==
  \E r \in Execs :
    \/ ExecRows(r)
    \/ ExecMask(r)
    \/ ExecCompose(r)
    \/ ExecFoldRound(r)
    \/ ExecSeedQueries(r)
    \/ ExecQuery(r)
    \/ ExecReturn(r)

SpecExec == InitExec /\ [][NextExec]_vars

\* ------------------------------------------------------------------------
\* Properties
\* ------------------------------------------------------------------------
\* the proof verified is the one the prover made
Honest == content = NoChange /\ shape = "none"

\* C1: Completeness with one folding round: verify_fib returns true on the
\* proof prove_fib returns, for every AIR and every configuration with
\* num_rounds = 1 (any number of queries, extended domain of 2 points or more).
C1_CompleteOneRound ==
  (phase = "verified" /\ Honest /\ cfg.num_rounds = 1) => result = "true"

C1_Witness ==
  /\ phase = "verified" /\ Honest
  /\ cfg.num_rounds = 1
  /\ cfg.queries >= 2
  /\ \E k \in 1..Len(proof.openings) : proof.openings[k].idx = 1
  /\ result = "true"

\* C2: Completeness with several folding rounds: verify_fib returns true on
\* the proof prove_fib returns for every configuration with
\* 2 <= num_rounds <= log2 of the extended domain, whatever rows are queried.
C2_CompleteManyRounds ==
  (phase = "verified" /\ Honest /\ cfg.num_rounds >= 2) => result = "true"

\* C3: Verifier totality: verify_fib returns a boolean on every proof value,
\* it never aborts.
C3_VerifierTotal == phase = "verified" => result \in {"true", "false"}

\* C4: A tampered row is rejected: one bit of openings[k].row of an honest
\* proof changed, k < queries, and verify_fib returns false.
C4_TamperedRowRejected ==
  (phase = "verified" /\ content.kind = "row" /\ shape = "none") => result = "false"

C4_Witness ==
  /\ phase = "verified" /\ content.kind = "row" /\ shape = "none"
  /\ content.k = 2
  /\ proof.openings[2].idx = proof.n_rows - 1
  /\ proof.n_rows > 1
  /\ result = "false"

\* the transcript state verify_fib rebuilds from the proof in flight
VerifierTranscript == FsTranscript(proof.air_id, proof.pub_input_enc, proof.merkle_root)

\* the row index the transcript binds query k to (k from 0)
ExpectedIdx(k) == next_u64(rng(xof, VerifierTranscript), k) % proof.n_rows

\* C5: Query positions are bound by Fiat-Shamir: verify_fib returns false
\* whenever, for some k < queries, openings[k].idx differs from the k-th
\* draw of the generator seeded from the transcript, reduced mod n_rows.
C5_QueryPositionsBound ==
  (/\ phase = "verified"
   /\ proof.n_rows > 0
   /\ \E k \in 1..Len(proof.openings) :
        k <= proof.queries /\ proof.openings[k].idx # ExpectedIdx(k - 1))
  => result = "false"

\* C6: A tampered next-row path is rejected: one bit of one node of
\* openings[k].path_next of an honest proof changed, for an opening that
\* carries a next row, and verify_fib returns false.
C6_TamperedNextPathRejected ==
  (phase = "verified" /\ content.kind = "path_next" /\ shape = "none")
  => result = "false"

C6_Witness ==
  /\ phase = "verified" /\ content.kind = "path_next" /\ shape = "none"
  /\ proof.openings[content.k].next_row.some
  /\ proof.openings[content.k].idx = ExpectedIdx(content.k - 1)
  /\ content.i = 2
  /\ result = "false"

\* C7: The public input is bound into the proof: one byte of pub_input_enc
\* of an honest proof changed, every other field as it was, and verify_fib
\* returns false.
C7_PublicInputBound ==
  (phase = "verified" /\ content.kind = "pub_input" /\ shape = "none")
  => result = "false"

C7_Witness ==
  /\ phase = "verified" /\ content.kind = "pub_input" /\ shape = "none"
  /\ proof.queries >= 1
  /\ proof.openings[1].idx = ExpectedIdx(0)
  /\ proof.pub_input_enc # bincode_serialize(public_input(air))
  /\ result = "false"

\* the opening of position p in a pair has value v
OpenedAt(pair, p, v) ==
  \/ pair.lo.idx = p /\ pair.lo.value = v
  \/ pair.hi.idx = p /\ pair.hi.value = v

\* C8: Strict fold consistency: verify_fib accepts only if, for every query
\* and every non-final round j, the value opened in round j+1 at exactly
\* position pos_j mod L_{j+1} equals lo.value + alpha_j * hi.value of round
\* j's pair.
C8_StrictFold ==
  (phase = "verified" /\ result = "true")
  => \A k \in 1..proof.queries :
       LET rq == proof.fri_round_queries.val[k].rounds
           rounds == proof.fri_rounds.val.rounds
           alpha == Fp_new(challenge_u64(xof, VerifierTranscript))
       IN \A j \in 1..(Len(rounds) - 1) :
            OpenedAt(rq[j + 1].pair,
                     rq[j].pair.pos % rounds[j + 1].len,
                     Fp_add(rq[j].pair.lo.value, Fp_mul(alpha, rq[j].pair.hi.value)))

\* the two executions are at the same statement, the same pass of its loop
SameStatement ==
  /\ e_pc[1] = e_pc[2]
  /\ Len(e_loc[1].round_mts) = Len(e_loc[2].round_mts)
  /\ Len(e_loc[1].openings) = Len(e_loc[2].openings)

C10_ParallelAsSequential ==
  LET seq == FriProver_commit(p_values)
      n == VLen(p_nodes) \div 2
  IN /\ \A i \in DOMAIN p_leaves :
          p_leaves[i] = IF i \in p_hashed THEN FriLeaf(p_values[i]) ELSE <<>>
     /\ p_pc = "fill" =>
          \A s \in DOMAIN p_nodes :
            p_nodes[s] = IF s >= n /\ (s - n) \in p_filled
                         THEN seq.mt[s] ELSE ZeroDigest
     /\ p_pc = "done" => p_nodes = seq.mt /\ p_out = seq.commitment

C10_Witness ==
  /\ p_pc = "done"
  /\ VLen(p_values) = 3
  /\ p_values[0] # p_values[2]
  /\ p_nodes[7] = p_nodes[6]
  /\ p_out.oracle.root = MerkleTree_root(MerkleTree_build(p_leaves))

\* C11: Transcript reads are pure: reads leave the state as the absorbs
\* made it, and two transcripts of one domain with the same absorb sequence,
\* read any number of times in between, return the same challenge_bytes(n).
C11_ReadsPure ==
  /\ \A t \in DOMAIN t_state :
       t_state[t] = Replay(Transcript_new(TR_DOMAIN), t_hist[t], 1)
  /\ \A t \in DOMAIN t_state, u \in DOMAIN t_state :
       (/\ t_hist[t] = t_hist[u]
        /\ t_read[t].at = Len(t_hist[t])
        /\ t_read[u].at = Len(t_hist[u])
        /\ t_read[t].n = t_read[u].n)
       => t_read[t].bytes = t_read[u].bytes

C11_Witness ==
  /\ DOMAIN t_state = 1..2
  /\ Len(t_hist[1]) = 2
  /\ t_hist[1] = t_hist[2]
  /\ t_read[1].at = 2 /\ t_read[2].at = 2
  /\ t_read[1].n = MaxOut /\ t_read[2].n = MaxOut
  /\ t_read[1].bytes = t_read[2].bytes
  /\ Cardinality(DOMAIN t_xof) = 3

\* C12: Transcript sensitivity: two transcripts of one domain whose absorb
\* sequences differ in one (label, data) pair, label any string and data any
\* byte string, have different states afterwards.
C12_TranscriptSensitive ==
  \A t \in DOMAIN t_state, u \in DOMAIN t_state :
    (/\ Len(t_hist[t]) = Len(t_hist[u])
     /\ Cardinality({i \in 1..Len(t_hist[t]) : t_hist[t][i] # t_hist[u][i]}) = 1)
    => t_state[t] # t_state[u]

\* C13: Merkle open / verify round trip: for every non-empty leaf list and
\* every index i below the padded size, verify(root, i, leaf_i, open(i)) is
\* true, leaf_i being the i-th leaf, or the last leaf at a padded position.
C13_MerkleRoundTrip ==
  (k_pc = "verified" /\ k_change = "none")
  => /\ k_leaf = IF k_idx < VLen(k_leaves) THEN k_leaves[k_idx]
                 ELSE k_leaves[VLen(k_leaves) - 1]
     /\ k_ok

C13_Witness ==
  /\ k_pc = "verified" /\ k_change = "none"
  /\ VLen(k_leaves) = 3
  /\ k_idx = 3
  /\ k_leaves[0] # k_leaves[2]
  /\ k_leaf = k_leaves[2]
  /\ k_ok

\* C14: Merkle tamper rejection: one bit of the leaf or of one sibling of an
\* honest opening flipped, and verify returns false.
C14_MerkleTamperRejected ==
  (k_pc = "verified" /\ k_change \in {"leaf", "path"}) => ~k_ok

C14_Witness ==
  /\ k_pc = "verified" /\ k_change = "path"
  /\ Len(k_path) = 2
  /\ k_path[2] # MerkleTree_open(k_tree, k_idx)[2]
  /\ ~k_ok

\* C15: Merkle shape checking: verify returns false whenever the path
\* length differs from the depth of the tree, and whenever idx >= 2^len(path).
C15_MerkleShapeChecked ==
  (/\ k_pc = "verified"
   /\ \/ Len(k_path) # MerkleDepth(k_tree)
      \/ k_idx >= 2 ^ Len(k_path))
  => ~k_ok

\* C16: FRI pair opening and fold relation: for every committed oracle V0
\* of even power-of-two length, every alpha and every position pos of the
\* lower or the upper half, verify_pair accepts open_pair(V0, mt, pos), and
\* lo.value + alpha * hi.value = fold_values(alpha, V0)[pos mod (L0 / 2)].
C16_PairFolds ==
  f_pc = "folded"
  => /\ f_ok
     /\ Fp_add(f_pair.lo.value, Fp_mul(Fp_new(f_alpha), f_pair.hi.value))
          = f_folded[f_pair.pos % (VLen(f_values) \div 2)]

\* C17: h_many part-count limit: a call of h_many with more than 255 parts
\* fails instead of producing a digest.
C17_PartCountLimited ==
  (h_pc = "returned" /\ Len(h_parts) > 255) => ~h_out.some

\* C18: Field laws. For canonical a and b: (a + b) - b = a and (-a) + a = 0;
\* for b # 0: (a * b) * b.inv() = a and b * b.inv() = 1.
C18_FieldLaws ==
  x_pc = "done" =>
    /\ x_op = "add" => x_out.back = x_a
    /\ (x_op = "neg" /\ Canonical(x_a)) => x_out.back = 0
    /\ (x_op = "mul" /\ x_b # 0) => x_out.back = x_a
    /\ (x_op = "inv" /\ x_b # 0) => x_out.back = 1

\* an addition that wrapped the machine word has been undone
C18_Witness ==
  /\ x_pc = "done"
  /\ x_op = "add"
  /\ x_a + x_b >= WORD
  /\ x_out.back = x_a

\* C19: Canonical arithmetic under machine-word wrapping. For canonical a and
\* b, add, sub, neg and mul return exactly (a + b) mod p, (a - b) mod p,
\* (-a) mod p and (a * b) mod p, all in [0, p); and Fp::new(x) * Fp::new(y)
\* is (x * y) mod p for every two words x and y.
C19_CanonicalArithmetic ==
  x_pc = "done" =>
    /\ x_op \in {"add", "sub", "mul", "new"} => Canonical(x_out.r)
    /\ (x_op = "neg" /\ Canonical(x_a)) => Canonical(x_out.r)
    /\ x_op = "add" => x_out.r = (x_a + x_b) % MODULUS
    /\ x_op = "sub" => x_out.r = (x_a - x_b) % MODULUS
    /\ (x_op = "neg" /\ Canonical(x_a)) => x_out.r = (0 - x_a) % MODULUS
    /\ x_op = "mul" => x_out.r = (x_a * x_b) % MODULUS
    /\ x_op = "new" => x_out.r = (x_a * x_b) % MODULUS

\* the sum of the two largest elements, which overflows the word
C19_Witness ==
  /\ x_pc = "done"
  /\ x_op = "add"
  /\ x_a = MODULUS - 1
  /\ x_b = MODULUS - 1
  /\ x_out.r = MODULUS - 2

\* C20: NTT round trip. For every vector a of power-of-two length n (n = 1
\* included) and w = root_of_unity(log2 n), fft_in_place(a, w) and then
\* ifft_in_place(a, w) restore a.
C20_RoundTrip ==
  n_pc = "ifft" => n_back = n_a

\* a vector of the largest length, changed by the forward transform and
\* restored by the inverse one
C20_Witness ==
  /\ n_pc = "ifft"
  /\ VLen(n_a) = 2 ^ MaxLogN
  /\ n_fft # n_a
  /\ n_back = n_a

\* the extension has n * 2^r entries and its entry i * 2^r is base[i]
LdeAgrees ==
  LET n == VLen(d_base)
  IN /\ VLen(d_out) = n * (2 ^ d_r)
     /\ \A i \in 0..(n - 1) : d_out[i * (2 ^ d_r)] = d_base[i]

\* C21 as stated: LDE agrees with the base evaluations. For every vector
\* base of power-of-two length n and every blowup r, lde_from_evals(base, r)
\* has length n * 2^r and its entry i * 2^r is base[i], for all i in [0, n).
C21_LdeAgreesAnySize ==
  d_pc = "returned" => LdeAgrees

\* C21, amended: LDE agrees with the base evaluations when the extended
\* domain exists. For every vector base of power-of-two length n and every
\* blowup r with n * 2^r <= 2^TWO_ADICITY, lde_from_evals(base, r) has length
\* n * 2^r and its entry i * 2^r is base[i], for all i in [0, n).
C21_LdeAgrees ==
  (d_pc = "returned" /\ Log2(VLen(d_base)) + d_r <= TWO_ADICITY) => LdeAgrees

\* a base vector that is not constant, extended to the largest domain
C21_Witness ==
  /\ d_pc = "returned"
  /\ VLen(d_base) >= 2
  /\ d_r >= 1
  /\ Log2(VLen(d_base)) + d_r = TWO_ADICITY
  /\ d_base[0] # d_base[1]
  /\ LdeAgrees

\* C22: AIR constraint contract. For every row index i, row, optional next
\* row and public input, all entries of eval_constraints(i, row, next, pub)
\* are zero exactly when check_row(i, row, next, pub) is true (the boundary
\* row[0] = a0, row[1] = a1 at i = 0 included).
C22_ConstraintsZeroIffRowChecks ==
  c_pc = "evaluated" =>
    ((\A c \in DOMAIN c_evals : c_evals[c] = Fp_zero) <=> (c_ok = "true"))

\* the predicate check_row is specified to compute
CheckRowReference ==
  /\ c_i # 0 \/ (c_row[0] = c_pub.a0 /\ c_row[1] = c_pub.a1)
  /\ IF c_next.some
     THEN /\ c_next.val[0] = c_row[1]
          /\ c_next.val[1] = (c_row[0] + c_row[1]) % MODULUS
     ELSE c_row[0] = c_pub.expected_first

\* C23: Fibonacci check_row equals its reference predicate: with a next row
\* it is true exactly when (i # 0 or (row[0], row[1]) = (a0, a1)) and
\* next[0] = row[1] and next[1] = row[0] + row[1]; without one, exactly when
\* (i # 0 or row = (a0, a1)) and row[0] = expected_first.
C23_CheckRowIsReference ==
  c_pc # "call" =>
    /\ c_ok \in {"true", "false"}
    /\ (c_ok = "true") <=> CheckRowReference

\* the first two rows of the trace of a0 = a1 = 1 pass, with a sum that
\* is the second column of the next row
C23_Witness ==
  /\ c_pc = "checked"
  /\ c_i = 0
  /\ c_row = gen_trace(FibonacciAir_new(1, 1, 1))[0]
  /\ c_next = Some([c \in 0..1 |-> gen_trace(FibonacciAir_new(1, 1, 1))[c][1]])
  /\ c_pub = public_input(FibonacciAir_new(1, 1, 1))
  /\ c_ok = "true"

\* C24: Fresh challenges. In prove_fib every challenge drawn after the root
\* absorption is drawn from a transcript state from which no earlier
\* challenge was drawn: the column weights gamma_0, gamma_1 and the folding
\* challenges alpha_0 .. alpha_{R-1} come from n_cols + R different states.
C24_FreshChallenges ==
  phase = "proved" => Cardinality(DOMAIN xof) >= n_cols(air) + cfg.num_rounds

\* C25: Query-phase layout. For each query with extended index
\* i0 = idx << r, the pair opening of round j (j = 0 .. R-1) is taken from
\* the oracle V_j of length L_j = L0 / 2^j at pos_j = i0 mod L_j, with hi at
\* pos_j XOR (L_j / 2), and verifies under the root committed for V_j; the
\* round-0 pair opens V0 under the root of fri_commitment.
C25_QueryLayout ==
  (phase = "proved" /\ Honest) =>
    \A k \in 1..proof.queries : \A j \in 1..cfg.num_rounds :
      LET L0 == proof.fri_commitment.val.oracle.len
          Lj == L0 \div (2 ^ (j - 1))
          i0 == proof.openings[k].idx * (2 ^ cfg.blowup_log2)
          pos == i0 % Lj
          pair == proof.fri_round_queries.val[k].rounds[j].pair
          round == proof.fri_rounds.val.rounds[j]
      IN /\ round.len = Lj
         /\ pair.pos = pos
         /\ pair.lo.idx = pos
         /\ pair.hi.idx = XorHalf(pos, Lj \div 2)
         /\ FriVerifier_verify_pair(round.root, round.len, pair)
         /\ j = 1 => round.root = proof.fri_commitment.val.oracle.root

\* C27: The trace length is bound to the public input: verify_fib accepts a
\* proof only if proof.n_rows is the trace length the decoded public input
\* declares, pub_inp.steps + 1.
C27_RowsBoundToPublicInput ==
  (phase = "verified" /\ result = "true") =>
    LET pub_inp == bincode_deserialize(proof.pub_input_enc)
    IN pub_inp.some /\ proof.n_rows = pub_inp.val.steps + 1

\* C29: No acceptance without checked openings: verify_fib returns true only
\* if at least one row opening was verified and passed check_row; a proof
\* with queries = 0 and no openings is rejected.
C29_OpeningsChecked ==
  (phase = "verified" /\ result = "true") => proof.queries >= 1

\* C28: The next row may be omitted only at the last row: verify_fib accepts
\* an opening with next_row = None and path_next = None only if its idx is
\* n_rows - 1.
C28_NextRowOnlyOmittedAtEnd ==
  (phase = "verified" /\ result = "true") =>
    \A k \in 1..proof.queries :
      (~proof.openings[k].next_row.some /\ ~proof.openings[k].path_next.some)
        => proof.openings[k].idx = proof.n_rows - 1

\* C30: The FRI oracle is bound to the trace: verify_fib accepts only if,
\* for every query k, the value opened from the committed oracle V0 at
\* ext_idx = idx << r is gamma_0 * row[0] + gamma_1 * row[1] for the trace
\* row opened at idx.
C30_OracleBoundToTrace ==
  (phase = "verified" /\ result = "true") =>
    \A k \in 1..proof.queries :
      LET row == bytes_to_fps(proof.openings[k].row).val
          gamma0 == Fp_new(challenge_u64(xof, VerifierTranscript))
          gamma1 == Fp_new(challenge_u64(xof, VerifierTranscript))
          opened == proof.fri_queries.val[k].oracle_proof
      IN /\ opened.idx = proof.openings[k].idx * (2 ^ cfg.blowup_log2)
         /\ opened.value = Fp_add(Fp_mul(gamma0, row[0]), Fp_mul(gamma1, row[1]))

\* C26: h_many framing is unambiguous: for a fixed label, two different part
\* lists (another number of parts, or other contents) have different
\* digests; so accumulate(None, c) never coincides with
\* accumulate(Some(p), c').
C26_FramingUnambiguous ==
  (g_pc \in {"hashed", "accumulated"} /\ g_a # g_b) => g_ha # g_hb

====
